---------------------------- MODULE Spec2Model ----------------------------
(***************************************************************************)
(* A model of the data-quality metric engine of src/1.py                   *)
(* (class DataQualityMetrics).                                             *)
(*                                                                         *)
(* Numbers.  Every metric value is kept in hundredths: the integer h       *)
(* stands for h/100, so 0.15 is 15, the count 7 is 700 and the score 83    *)
(* is 8300.  A value that numpy computes as nan is the value NaN.          *)
(*                                                                         *)
(* pandas / numpy / Python behaviour the engine relies on and that is      *)
(* modelled here:                                                          *)
(*   - numpy scalar division 0/0 gives nan (a warning, no exception);      *)
(*     the mean of an empty array or Series is nan; round(nan, 2) is nan;  *)
(*     round(nan) raises ValueError; min(1, nan) is 1.                     *)
(*   - pd.to_datetime accepts a float64 column (epoch nanoseconds), an     *)
(*     empty-string or missing cell (NaT) and an empty column; it raises   *)
(*     on a bool column and on a string that is no date.                   *)
(*   - round(x, 2) and round(x) round half to even.                        *)
(*   - the functions of Python's module `random` share one process-wide    *)
(*     generator.                                                          *)
(***************************************************************************)
EXTENDS Integers, Sequences, FiniteSets, TLC

VARIABLES
    df,        \* the table handed to calculate_metrics (read-only)
    target,    \* the target_col argument
    sk,        \* what the seeded scikit-learn estimators return on df
    rng,       \* state of the process-wide generator of module `random`
    engines,   \* the DataQualityMetrics instances: dataset_id, random_seed
    cur,       \* the instance whose calculate_metrics is running (0: none)
    pc,        \* position inside calculate_metrics
    types,     \* result of _detect_column_types for the running call
    metrics,   \* the metrics dict under construction
    results,   \* the records returned so far, oldest first
    fb,        \* the last call of _get_random_fallback: name, state, draw, value
    raised,    \* an exception has left calculate_metrics
    progress   \* the percentages handed to progress_callback, oldest first

vars == <<df, target, sk, rng, engines, cur, pc, types, metrics, results, fb, raised,
         progress>>

-----------------------------------------------------------------------------
(* Bounds of the model *)

MaxRows == 2
RngMod == 8
MaxCalls == 2
MaxEngines == 2
\* the largest number of rows of one class of a target column
MaxCount == 101

-----------------------------------------------------------------------------
(* Numbers *)

\* numpy's nan: the result of 0/0 and of the mean of nothing
NaN == -1000000

\* a missing cell (None / np.nan / NaT in a column)
NA == -1000

Abs(x) == IF x < 0 THEN -x ELSE x

Min(a, b) == IF a <= b THEN a ELSE b

Max(a, b) == IF a >= b THEN a ELSE b

\* floor of n/d for d > 0 (\div rounds toward minus infinity)
Floor(n, d) == n \div d

\* Python int(): truncation toward zero of n/d, d > 0
Trunc(n, d) == IF n >= 0 THEN n \div d ELSE -((-n) \div d)

\* Python round(): the integer nearest to n/d (d > 0), a tie going to the
\* even neighbour
RoundHalfEven(n, d) ==
    LET q == n \div d
        r == n % d
    IN  IF 2 * r < d THEN q
        ELSE IF 2 * r > d THEN q + 1
        ELSE IF q % 2 = 0 THEN q ELSE q + 1

\* round(n/d, 2), in hundredths
Round2(n, d) == RoundHalfEven(100 * n, d)

RECURSIVE SumSeq(_)
SumSeq(s) == IF s = <<>> THEN 0 ELSE Head(s) + SumSeq(Tail(s))

\* the set of elements of a sequence
Range(s) == {s[i] : i \in DOMAIN s}

\* the elements of s that are in the set S, in order
SelectIn(s, S) ==
    LET Kept(x) == x \in S
    IN  SelectSeq(s, Kept)

-----------------------------------------------------------------------------
(* The metric names and the fallback generator *)

MetricOrder == <<
    "Missing_Values_Pct", "Duplicate_Records_Count", "Outlier_Rate",
    "Inconsistency_Rate", "Data_Type_Mismatch_Rate", "Null_vs_NaN_Distribution",
    "Cardinality_Categorical", "Target_Imbalance", "Feature_Correlation_Mean",
    "Range_Violation_Rate", "Mean_Median_Drift", "Class_Overlap_Score",
    "Data_Freshness", "Feature_Importance_Consistency", "Anomaly_Count",
    "Encoding_Coverage_Rate", "Variance_Threshold_Check",
    "Data_Density_Completeness", "Label_Noise_Rate",
    "Domain_Constraint_Violations" >>

RawMetrics == Range(MetricOrder)

AllMetrics == RawMetrics \cup {"Data_Quality_Score"}

\* self.metric_ranges: (low, high) per metric, in hundredths
metric_ranges ==
    [ Missing_Values_Pct |-> <<0, 3000>>,
      Duplicate_Records_Count |-> <<0, 10000>>,
      Outlier_Rate |-> <<0, 15>>,
      Inconsistency_Rate |-> <<0, 10>>,
      Data_Type_Mismatch_Rate |-> <<0, 5>>,
      Null_vs_NaN_Distribution |-> <<0, 100>>,
      Cardinality_Categorical |-> <<100, 10000>>,
      Target_Imbalance |-> <<0, 100>>,
      Feature_Correlation_Mean |-> <<0, 100>>,
      Range_Violation_Rate |-> <<0, 10>>,
      Mean_Median_Drift |-> <<0, 20>>,
      Class_Overlap_Score |-> <<0, 100>>,
      Data_Freshness |-> <<0, 36500>>,
      Feature_Importance_Consistency |-> <<0, 100>>,
      Anomaly_Count |-> <<0, 10000>>,
      Encoding_Coverage_Rate |-> <<70, 100>>,
      Variance_Threshold_Check |-> <<0, 10>>,
      Data_Density_Completeness |-> <<50, 100>>,
      Label_Noise_Rate |-> <<0, 10>>,
      Domain_Constraint_Violations |-> <<0, 10>>,
      Data_Quality_Score |-> <<0, 10000>> ]

\* self.metric_ranges.get(metric_name, (0, 1))
RangeOf(metric_name) ==
    IF metric_name \in DOMAIN metric_ranges
    THEN metric_ranges[metric_name]
    ELSE <<0, 100>>

\* random.seed(s): the generator state a seed gives
SeedState(s) == s % RngMod

\* the state after one draw
RngStep(r) == (r + 1) % RngMod

\* low + high * random.random(): the width of the range taken to be high
UniformNoWidth(low, high, r) == low * RngMod + high * r

\* random.uniform(low, high) = low + (high - low) * random.random(), where
\* random.random() is r / RngMod in state r.  The result is the numerator
\* of a fraction of hundredths over RngMod.
Uniform(low, high, r) == low * RngMod + (high - low) * r

CountMetrics == {"Duplicate_Records_Count", "Anomaly_Count", "Cardinality_Categorical"}

\* the fallback with every metric rounded to two decimals, counts included
get_random_fallback_rounded(metric_name, r) ==
    RoundHalfEven(Uniform(RangeOf(metric_name)[1], RangeOf(metric_name)[2], r), RngMod)

\* _get_random_fallback(metric_name) in generator state r: the value
\* returned, in hundredths
get_random_fallback(metric_name, r) ==
    LET low == RangeOf(metric_name)[1]
        high == RangeOf(metric_name)[2]
        u == Uniform(low, high, r)
    IN  IF metric_name = "Data_Quality_Score"
        THEN 100 * RoundHalfEven(u, 100 * RngMod)
        ELSE IF metric_name \in CountMetrics
        THEN 100 * Trunc(u, 100 * RngMod)
        ELSE RoundHalfEven(u, RngMod)

-----------------------------------------------------------------------------
(* Tables *)

(* A table is [n, cols]: n rows and a sequence of columns, each            *)
(* [name, isstr, dtype, cells].  isstr says whether the column label is a  *)
(* Python str (a label such as the integer 0 is not).  A cell is NA or an  *)
(* integer: the number itself in a float64 column, 1/0 for True/False in   *)
(* a bool column, and in an object column a code for a string: StrEmpty    *)
(* for '', StrPlain for a string without '@' that is no date, StrAt for a  *)
(* string holding '@'.                                                     *)

StrEmpty == 0
StrPlain == 1
StrAt == 2

\* the column layouts tables are drawn from
Layouts == {
    << >>,
    << [name |-> "age", isstr |-> TRUE, dtype |-> "float64"] >>,
    << [name |-> "0", isstr |-> FALSE, dtype |-> "float64"] >>,
    << [name |-> "email", isstr |-> TRUE, dtype |-> "object"] >>,
    << [name |-> "flag", isstr |-> TRUE, dtype |-> "bool"],
       [name |-> "done", isstr |-> TRUE, dtype |-> "bool"] >>,
    << [name |-> "age", isstr |-> TRUE, dtype |-> "float64"],
       [name |-> "email", isstr |-> TRUE, dtype |-> "object"] >>,
    << [name |-> "flag", isstr |-> TRUE, dtype |-> "bool"],
       [name |-> "done", isstr |-> TRUE, dtype |-> "bool"],
       [name |-> "score_rate", isstr |-> TRUE, dtype |-> "float64"] >> }

Fills == {"dense", "holes"}

\* the cell of row i of a column of the given dtype under a fill
Cell(dtype, fill, i) ==
    IF dtype = "float64"
    THEN IF fill = "dense" THEN <<5, -1, 0>>[((i - 1) % 3) + 1]
         ELSE IF i % 2 = 1 THEN NA ELSE 5
    ELSE IF dtype = "bool"
    THEN IF fill = "dense" THEN 1
         ELSE IF i % 2 = 1 THEN 1 ELSE 0
    ELSE IF fill = "dense" THEN <<StrAt, StrEmpty, StrPlain>>[((i - 1) % 3) + 1]
         ELSE IF i % 2 = 1 THEN NA ELSE StrAt

MakeTable(n, layout, fill) ==
    [ n |-> n,
      cols |-> [ c \in DOMAIN layout |->
                   [ name |-> layout[c].name,
                     isstr |-> layout[c].isstr,
                     dtype |-> layout[c].dtype,
                     cells |-> [ i \in 1..n |-> Cell(layout[c].dtype, fill[c], i) ] ] ] ]

\* the tables calculate_metrics is run on; a table without columns has no rows
Tables ==
    UNION { { MakeTable(n, layout, fill) :
                n \in (IF layout = << >> THEN {0} ELSE 0..MaxRows),
                fill \in [DOMAIN layout -> Fills] } :
            layout \in Layouts }

-----------------------------------------------------------------------------
(* Column helpers (pandas) *)

NCols(t) == Len(t.cols)

Rows(t) == 1..t.n

ColIdx(t) == 1..Len(t.cols)

\* series.notna() : the non-missing cells of a column, in row order
NotNa(col) == SelectIn(col.cells, Range(col.cells) \ {NA})

\* series.isna().sum()
NaCount(col) == Len(col.cells) - Len(NotNa(col))

\* pd.api.types.is_numeric_dtype(series)
is_numeric_dtype(col) == col.dtype \in {"float64", "bool"}

\* series.nunique(): distinct non-missing values
NUnique(col) == Cardinality(Range(col.cells) \ {NA})

\* the number of elements of the sequence s that are in the set S
CountIn(s, S) == Len(SelectIn(s, S))

\* the sum of squares of a sequence
RECURSIVE SumSq(_)
SumSq(s) == IF s = <<>> THEN 0 ELSE Head(s) * Head(s) + SumSq(Tail(s))

\* `pattern in col.lower()` for the column labels of Layouts
NameHas(name) ==
    CASE name = "age" -> {"age"}
      [] name = "email" -> {"email"}
      [] name = "score_rate" -> {"score", "rate"}
      [] OTHER -> {}

\* the numeric pattern with a missing cell ('nan') taken as matching
MatchesNumericPatternOrMissing(col, cell) == col.dtype = "float64"

\* the Python str of a cell of a numeric column matches r'^-?\d*\.?\d+$':
\* '5.0' and '-1.0' do, 'nan', 'True' and 'False' do not
MatchesNumericPattern(col, cell) == col.dtype = "float64" /\ cell # NA

-----------------------------------------------------------------------------
(* Column Type Classifier *)

\* pd.to_datetime(series, errors='raise') raises: on a bool column
\* (TypeError) and on an object column with a string that is no date; a
\* float64 column converts (epoch nanoseconds), missing cells and empty
\* strings convert to NaT
to_datetime_raises(col) ==
    CASE col.dtype = "float64" -> FALSE
      [] col.dtype = "bool" -> TRUE
      [] OTHER -> ~(Range(col.cells) \subseteq {NA, StrEmpty})

\* _is_date_column: dtype datetime64 (no column of the tables here), or
\* pd.to_datetime does not raise; the bare except gives False
is_date_column(col) == ~to_datetime_raises(col)

\* the kind of a column when the storage type is tested before the dates
KindOfNumericFirst(col) ==
    IF is_numeric_dtype(col) THEN "numeric"
    ELSE IF is_date_column(col) THEN "date"
    ELSE "categorical"

\* the kind of a column when a raising date probe makes it categorical
KindOfRaisesCategorical(col) ==
    IF to_datetime_raises(col) THEN "categorical"
    ELSE "date"

\* the kind _detect_column_types gives one column
KindOf(col) ==
    IF is_date_column(col) THEN "date"
    ELSE IF is_numeric_dtype(col) THEN "numeric"
    ELSE "categorical"

\* the indices of the columns of kind k, in column order
RECURSIVE ColsOfKind(_, _, _)
ColsOfKind(t, k, c) ==
    IF c > NCols(t) THEN <<>>
    ELSE (IF KindOf(t.cols[c]) = k THEN <<c>> ELSE <<>>) \o ColsOfKind(t, k, c + 1)

\* _detect_column_types(df): numeric_cols, categorical_cols, date_cols
detect_column_types(t) ==
    [ numeric |-> ColsOfKind(t, "numeric", 1),
      categorical |-> ColsOfKind(t, "categorical", 1),
      date |-> ColsOfKind(t, "date", 1) ]

-----------------------------------------------------------------------------
(* Metric Calculators.  Each gives what the body of its try block does:    *)
(* Value(v) for `return v`, Fallback for an explicit                       *)
(* `return self._get_random_fallback(...)`, Raise for an exception.        *)

Value(v) == [kind |-> "value", v |-> v]
Fallback == [kind |-> "fallback", v |-> 0]
Raise == [kind |-> "raise", v |-> 0]

\* the sum of f[c] over the column indices in the sequence cs
RECURSIVE SumOver(_, _)
SumOver(f, cs) == IF cs = <<>> THEN 0 ELSE f[Head(cs)] + SumOver(f, Tail(cs))

AllCols(t) == [c \in ColIdx(t) |-> c]

\* df.isna().sum().sum()
MissingCells(t) == SumOver([c \in ColIdx(t) |-> NaCount(t.cols[c])], AllCols(t))

\* df.size
TotalCells(t) == t.n * NCols(t)

\* the percentage of the cells that are present instead of missing
calculate_present_values_pct(t) ==
    IF TotalCells(t) = 0 THEN Value(NaN)
    ELSE Value(Round2(100 * (TotalCells(t) - MissingCells(t)), TotalCells(t)))

\* calculate_missing_values_pct: numpy's 0/0 is nan, not an exception
calculate_missing_values_pct(t) ==
    IF TotalCells(t) = 0 THEN Value(NaN)
    ELSE Value(Round2(MissingCells(t) * 100, TotalCells(t)))

RowOf(t, i) == [c \in ColIdx(t) |-> t.cols[c].cells[i]]

\* calculate_duplicate_records_count: df.duplicated().sum(), the rows equal
\* to an earlier row
calculate_duplicate_records_count(t) ==
    Value(100 * Cardinality({i \in Rows(t) : \E j \in 1..(i - 1) : RowOf(t, j) = RowOf(t, i)}))

\* (z_scores > 3).sum() of scipy.stats.zscore (population deviation): the
\* values x with (x - mean)^2 > 9 var, i.e. (m x - S)^2 > 9 (m SS - S^2)
ZOutliers(vals) ==
    LET m == Len(vals)
        S == SumSeq(vals)
        SS == SumSq(vals)
    IN  Cardinality({i \in DOMAIN vals :
            (m * vals[i] - S) * (m * vals[i] - S) > 9 * (m * SS - S * S)})

\* the columns among cs without a missing value
ValidCols(t, cs) == SelectIn(cs, {c \in ColIdx(t) : NaCount(t.cols[c]) = 0})

\* calculate_outlier_rate
calculate_outlier_rate(t, numeric_cols, forest) ==
    IF Len(numeric_cols) = 0 THEN Fallback
    ELSE IF Len(ValidCols(t, numeric_cols)) < 2
    THEN LET total_values == SumOver([c \in ColIdx(t) |-> Len(NotNa(t.cols[c]))], numeric_cols)
             outlier_counts == SumOver([c \in ColIdx(t) |-> ZOutliers(NotNa(t.cols[c]))], numeric_cols)
         IN  IF total_values > 0
             THEN Value(Round2(outlier_counts, Max(1, total_values)))
             ELSE Fallback
    ELSE IF t.n = 0 THEN Raise   \* IsolationForest.fit on 0 samples: ValueError
    ELSE Value(Round2(forest.outliers, t.n))

\* the sum of f[x] over the finite set S
RECURSIVE SumSet(_, _)
SumSet(f, S) ==
    IF S = {} THEN 0
    ELSE LET x == CHOOSE y \in S : TRUE IN f[x] + SumSet(f, S \ {x})

\* some column label is not a str: col.lower() raises AttributeError
HasNonStrLabel(t) == \E c \in ColIdx(t) : ~t.cols[c].isstr

positive_patterns == {"age", "price", "cost", "income", "salary", "count", "amount", "quantity"}

\* range_checks: pattern -> (min_val, max_val)
range_checks ==
    [ age |-> <<0, 120>>, percent |-> <<0, 100>>, probability |-> <<0, 1>>, score |-> <<0, 100>> ]

\* the non-missing cells of a column outside [lo, hi]
OutsideCount(col, lo, hi) ==
    Cardinality({i \in DOMAIN col.cells :
        col.cells[i] # NA /\ (col.cells[i] < lo \/ col.cells[i] > hi)})

\* (df[col] < 0).sum()
NegativeCount(col) ==
    Cardinality({i \in DOMAIN col.cells : col.cells[i] # NA /\ col.cells[i] < 0})

\* total_checks of calculate_inconsistency_rate: every (pattern, column)
\* match adds the column's non-missing count
InconsistencyChecks(t) ==
    SumSet([c \in ColIdx(t) |->
              IF is_numeric_dtype(t.cols[c])
              THEN (Cardinality(NameHas(t.cols[c].name) \cap positive_patterns)
                    + Cardinality(NameHas(t.cols[c].name) \cap DOMAIN range_checks))
                   * Len(NotNa(t.cols[c]))
              ELSE 0],
           ColIdx(t))

\* inconsistencies of calculate_inconsistency_rate
Inconsistencies(t) ==
    SumSet([c \in ColIdx(t) |->
              IF is_numeric_dtype(t.cols[c])
              THEN Cardinality(NameHas(t.cols[c].name) \cap positive_patterns)
                   * NegativeCount(t.cols[c])
                   + SumSet([p \in DOMAIN range_checks |->
                               OutsideCount(t.cols[c], range_checks[p][1], range_checks[p][2])],
                            NameHas(t.cols[c].name) \cap DOMAIN range_checks)
              ELSE 0],
           ColIdx(t))

\* the inconsistencies as a percentage of the checks instead of a fraction
calculate_inconsistency_pct(t) ==
    IF HasNonStrLabel(t) THEN Raise
    ELSE IF InconsistencyChecks(t) = 0 THEN Fallback
    ELSE Value(Round2(100 * Inconsistencies(t), InconsistencyChecks(t)))

\* calculate_inconsistency_rate
calculate_inconsistency_rate(t) ==
    IF HasNonStrLabel(t) THEN Raise
    ELSE IF InconsistencyChecks(t) = 0 THEN Fallback
    ELSE Value(Round2(Inconsistencies(t), InconsistencyChecks(t)))

\* a column calculate_data_type_mismatch_rate counts: not all missing (an
\* empty column is all missing), and of numeric dtype or a date column
MismatchChecked(col) ==
    /\ \E i \in DOMAIN col.cells : col.cells[i] # NA
    /\ (is_numeric_dtype(col) \/ is_date_column(col))

\* mismatches of one checked column: the cells of a numeric column whose
\* str does not match the numeric pattern; a date column has just passed
\* pd.to_datetime(errors='raise'), so the inner try adds nothing
Mismatches(col) ==
    IF is_numeric_dtype(col)
    THEN Cardinality({i \in DOMAIN col.cells : ~MatchesNumericPattern(col, col.cells[i])})
    ELSE 0

\* calculate_data_type_mismatch_rate
calculate_data_type_mismatch_rate(t) ==
    LET checked == {c \in ColIdx(t) : MismatchChecked(t.cols[c])}
        total_cells == SumSet([c \in ColIdx(t) |-> Len(t.cols[c].cells)], checked)
        mismatches == SumSet([c \in ColIdx(t) |-> Mismatches(t.cols[c])], checked)
    IN  IF total_cells = 0 THEN Fallback
        ELSE Value(Round2(mismatches, total_cells))

\* (df[col] == '').sum() over the object columns
EmptyStrings(t) ==
    SumSet([c \in ColIdx(t) |->
              IF t.cols[c].dtype = "object"
              THEN Cardinality({i \in DOMAIN t.cols[c].cells : t.cols[c].cells[i] = StrEmpty})
              ELSE 0],
           ColIdx(t))

\* calculate_null_vs_nan_distribution
calculate_null_vs_nan_distribution(t) ==
    IF MissingCells(t) + EmptyStrings(t) = 0 THEN Fallback
    ELSE Value(Round2(MissingCells(t), MissingCells(t) + EmptyStrings(t)))

\* calculate_cardinality_categorical: int(np.mean(cardinalities))
calculate_cardinality_categorical(t, categorical_cols) ==
    IF Len(categorical_cols) = 0 THEN Fallback
    ELSE Value(100 * Trunc(SumOver([c \in ColIdx(t) |-> NUnique(t.cols[c])], categorical_cols),
                           Len(categorical_cols)))

\* the index of the target with the first column taken when target_col is
\* None or not in df.columns
TargetIdxFirstColumn(t, target_col) ==
    IF \E c \in ColIdx(t) : t.cols[c].isstr /\ t.cols[c].name = target_col
    THEN CHOOSE c \in ColIdx(t) : t.cols[c].isstr /\ t.cols[c].name = target_col
    ELSE IF NCols(t) > 0 THEN 1 ELSE 0

\* the index of the column labelled target_col, 0 when target_col is None
\* or not in df.columns
TargetIdx(t, target_col) ==
    IF \E c \in ColIdx(t) : t.cols[c].isstr /\ t.cols[c].name = target_col
    THEN CHOOSE c \in ColIdx(t) : t.cols[c].isstr /\ t.cols[c].name = target_col
    ELSE 0

\* series.value_counts(): value -> number of occurrences, missing dropped
ValueCounts(col) ==
    [v \in Range(col.cells) \ {NA} |-> CountIn(col.cells, {v})]

\* the smallest count of value_counts
MinCount(vc) == CHOOSE k \in {vc[v] : v \in DOMAIN vc} : \A v \in DOMAIN vc : k <= vc[v]

\* the minority ratio of a two-class target returned without the factor 2
calculate_target_minority_ratio(t, target_col, entropy) ==
    IF TargetIdx(t, target_col) = 0 THEN Fallback
    ELSE LET col == t.cols[TargetIdx(t, target_col)]
             class_counts == ValueCounts(col)
             total == Len(NotNa(col))
         IN  IF total = 0 THEN Fallback
             ELSE IF Cardinality(DOMAIN class_counts) <= 1 THEN Value(100)
             ELSE IF Cardinality(DOMAIN class_counts) = 2
             THEN Value(Round2(MinCount(class_counts), total))
             ELSE Value(entropy)

\* calculate_target_imbalance; entropy is round(entropy / max_entropy, 2)
\* for a target of three classes or more
calculate_target_imbalance(t, target_col, entropy) ==
    IF TargetIdx(t, target_col) = 0 THEN Fallback
    ELSE LET col == t.cols[TargetIdx(t, target_col)]
             class_counts == ValueCounts(col)
             total == Len(NotNa(col))
         IN  IF total = 0 THEN Fallback
             ELSE IF Cardinality(DOMAIN class_counts) <= 1 THEN Value(100)
             ELSE IF Cardinality(DOMAIN class_counts) = 2
             THEN Value(Round2(2 * MinCount(class_counts), total))
             ELSE Value(entropy)

\* the rows where both columns a and b of t hold a value
PairRows(t, a, b) == {i \in Rows(t) : t.cols[a].cells[i] # NA /\ t.cols[b].cells[i] # NA}

\* m^2 times the covariance of columns a and b over their common rows R
CoMoment(t, a, b, R) ==
    Cardinality(R) * SumSet([i \in Rows(t) |-> t.cols[a].cells[i] * t.cols[b].cells[i]], R)
    - SumSet([i \in Rows(t) |-> t.cols[a].cells[i]], R)
      * SumSet([i \in Rows(t) |-> t.cols[b].cells[i]], R)

\* DataFrame.corr() has a value for the pair (a, b): two common rows or
\* more and neither column constant on them
CorrDefined(t, a, b) ==
    LET R == PairRows(t, a, b)
    IN  Cardinality(R) >= 2 /\ CoMoment(t, a, a, R) > 0 /\ CoMoment(t, b, b, R) > 0

\* |Pearson correlation| of columns a and b, in hundredths: the h with
\* (h - 1/2)^2 <= 10^4 cov^2 / (var_a var_b) < (h + 1/2)^2
AbsCorr(t, a, b) ==
    LET R == PairRows(t, a, b)
        c2 == CoMoment(t, a, b, R) * CoMoment(t, a, b, R)
        vv == CoMoment(t, a, a, R) * CoMoment(t, b, b, R)
    IN  CHOOSE h \in 0..100 :
            /\ (h = 0 \/ (2 * h - 1) * (2 * h - 1) * vv <= 40000 * c2)
            /\ (h = 100 \/ 40000 * c2 < (2 * h + 1) * (2 * h + 1) * vv)

\* the pairs of the upper triangle of the correlation matrix of cs
UpperPairs(cs) == {p \in (DOMAIN cs) \X (DOMAIN cs) : p[1] < p[2]}

\* calculate_feature_correlation_mean: the mean of an empty selection is
\* nan.  With several defined pairs the mean is taken of the pairs'
\* correlations in hundredths.
calculate_feature_correlation_mean(t, numeric_cols) ==
    IF Len(numeric_cols) < 2 THEN Fallback
    ELSE LET defined == {p \in UpperPairs(numeric_cols) :
                            CorrDefined(t, numeric_cols[p[1]], numeric_cols[p[2]])}
             total == SumSet([p \in UpperPairs(numeric_cols) |->
                                IF p \in defined
                                THEN AbsCorr(t, numeric_cols[p[1]], numeric_cols[p[2]])
                                ELSE 0],
                             defined)
         IN  IF defined = {} THEN Value(NaN)
             ELSE Value(RoundHalfEven(total, Cardinality(defined)))

\* the values of vals outside mean +- 3 std (sample deviation): with
\* m values, sum S and sum of squares SS,
\* (m x - S)^2 (m - 1) > 9 m (m SS - S^2); std is nan for m < 2
SigmaViolations(vals) ==
    LET m == Len(vals)
        S == SumSeq(vals)
        SS == SumSq(vals)
    IN  IF m < 2 THEN 0
        ELSE Cardinality({i \in DOMAIN vals :
                (m * vals[i] - S) * (m * vals[i] - S) * (m - 1) > 9 * m * (m * SS - S * S)})

\* calculate_range_violation_rate
calculate_range_violation_rate(t, numeric_cols) ==
    IF Len(numeric_cols) = 0 THEN Fallback
    ELSE LET total_values == SumOver([c \in ColIdx(t) |-> Len(NotNa(t.cols[c]))], numeric_cols)
             violations == SumOver([c \in ColIdx(t) |-> SigmaViolations(NotNa(t.cols[c]))], numeric_cols)
         IN  IF total_values = 0 THEN Fallback
             ELSE Value(Round2(violations, total_values))

\* the k-th smallest element of a non-empty sequence of numbers
KthSmallest(vals, k) ==
    CHOOSE x \in Range(vals) :
        /\ Cardinality({i \in DOMAIN vals : vals[i] < x}) < k
        /\ Cardinality({i \in DOMAIN vals : vals[i] <= x}) >= k

\* twice the median of a non-empty sequence
TwiceMedian(vals) ==
    LET m == Len(vals)
    IN  IF m % 2 = 1 THEN 2 * KthSmallest(vals, (m + 1) \div 2)
        ELSE KthSmallest(vals, m \div 2) + KthSmallest(vals, m \div 2 + 1)

\* the drift of one column as a fraction <<num, den>>:
\* |mean - median| / |median|, or / max(1, |mean|) when the median is 0
Drift(vals) ==
    LET m == Len(vals)
        S == SumSeq(vals)
        M2 == TwiceMedian(vals)
    IN  IF M2 # 0 THEN <<Abs(2 * S - m * M2), m * Abs(M2)>>
        ELSE <<Abs(S), Max(m, Abs(S))>>

\* the sum of the fractions fr[c], c in the sequence cs, as <<num, den>>
RECURSIVE SumFractions(_, _)
SumFractions(fr, cs) ==
    IF cs = <<>> THEN <<0, 1>>
    ELSE LET rest == SumFractions(fr, Tail(cs))
             x == fr[Head(cs)]
         IN  <<x[1] * rest[2] + rest[1] * x[2], x[2] * rest[2]>>

\* calculate_mean_median_drift
calculate_mean_median_drift(t, numeric_cols) ==
    IF Len(numeric_cols) = 0 THEN Fallback
    ELSE LET withValues == SelectIn(numeric_cols, {c \in ColIdx(t) : Len(NotNa(t.cols[c])) > 0})
             sum == SumFractions([c \in ColIdx(t) |->
                                    IF Len(NotNa(t.cols[c])) > 0
                                    THEN Drift(NotNa(t.cols[c])) ELSE <<0, 1>>],
                                 withValues)
         IN  IF Len(withValues) = 0 THEN Fallback
             ELSE Value(Round2(sum[1], sum[2] * Len(withValues)))

\* the rows of t without a missing value in the columns of the set C
CompleteRows(t, C) == {i \in Rows(t) : \A c \in C : t.cols[c].cells[i] # NA}

\* calculate_class_overlap_score; silhouette is
\* round((silhouette_score + 1) / 2, 2).  With the target among the
\* numeric columns subset[target_col] is a frame and the test on its
\* nunique() raises.
calculate_class_overlap_score(t, numeric_cols, target_col, silhouette) ==
    IF TargetIdx(t, target_col) = 0 \/ Len(numeric_cols) < 2 THEN Fallback
    ELSE LET tc == TargetIdx(t, target_col)
             subset == CompleteRows(t, Range(numeric_cols) \cup {tc})
             classes == {t.cols[tc].cells[i] : i \in subset}
         IN  IF Cardinality(subset) < 10 THEN Fallback
             ELSE IF tc \in Range(numeric_cols) THEN Raise
             ELSE IF Cardinality(classes) < 2 THEN Fallback
             ELSE IF \E v \in classes :
                        Cardinality({i \in subset : t.cols[tc].cells[i] = v}) < 2
             THEN Fallback
             ELSE Value(silhouette)

\* pd.Timestamp.now().normalize(), in days since 1970-01-01
TodayDays == 20759

\* (today - dates.max()).days of a float64 date column: its cells are
\* nanoseconds after 1970-01-01, so the newest date is that day, and the
\* difference is a whole number of days less the nanoseconds
DaysSince(col) ==
    LET newest == CHOOSE x \in Range(NotNa(col)) : \A y \in Range(NotNa(col)) : y <= x
    IN  IF newest > 0 THEN TodayDays - 1 ELSE TodayDays

\* calculate_data_freshness: a date column without any date is skipped (an
\* object column of '' and missing cells converts to NaT only)
calculate_data_freshness(t, date_cols) ==
    IF Len(date_cols) = 0 THEN Fallback
    ELSE LET dated == SelectIn(date_cols,
                        {c \in ColIdx(t) : t.cols[c].dtype = "float64" /\ Len(NotNa(t.cols[c])) > 0})
             days == SumOver([c \in ColIdx(t) |->
                                IF c \in Range(dated) THEN Max(0, DaysSince(t.cols[c])) ELSE 0],
                             dated)
         IN  IF Len(dated) = 0 THEN Fallback
             ELSE Value(Round2(days, Len(dated)))


\* calculate_feature_importance_consistency; consistency is
\* round((spearman + 1) / 2, 2), or NaN when an importance could not be
\* computed or the rank correlation is undefined
calculate_feature_importance_consistency(t, numeric_cols, target_col, consistency) ==
    IF TargetIdx(t, target_col) = 0 \/ Len(numeric_cols) < 2 THEN Fallback
    ELSE IF Cardinality(CompleteRows(t, Range(numeric_cols) \cup {TargetIdx(t, target_col)})) < 20
    THEN Fallback
    ELSE IF consistency = NaN THEN Fallback
    ELSE Value(consistency)

\* calculate_anomaly_count
calculate_anomaly_count(t, numeric_cols, forest) ==
    IF Len(numeric_cols) < 2 THEN Fallback
    ELSE IF Len(ValidCols(t, numeric_cols)) < 2 THEN Fallback
    ELSE IF t.n = 0 THEN Raise   \* IsolationForest.fit on 0 samples: ValueError
    ELSE Value(100 * forest.anomalies)

\* the largest total of k of the counts of vc
TopTotal(vc, k) ==
    LET totals == {SumSet(vc, S) : S \in {T \in SUBSET DOMAIN vc : Cardinality(T) = k}}
    IN  CHOOSE x \in totals : \A y \in totals : y <= x

\* cumulative[cumulative <= 0.8].count(): the lengths k of a prefix of the
\* values, most frequent first, whose share is at most 0.8
TopCategories(col) ==
    LET vc == ValueCounts(col)
        m == Len(NotNa(col))
    IN  Cardinality({k \in 1..Cardinality(DOMAIN vc) : 5 * TopTotal(vc, k) <= 4 * m})

\* calculate_encoding_coverage_rate
calculate_encoding_coverage_rate(t, categorical_cols) ==
    IF Len(categorical_cols) = 0 THEN Fallback
    ELSE LET counted == SelectIn(categorical_cols, {c \in ColIdx(t) : NUnique(t.cols[c]) > 0})
             sum == SumFractions([c \in ColIdx(t) |->
                                    IF NUnique(t.cols[c]) > 0
                                    THEN <<TopCategories(t.cols[c]), NUnique(t.cols[c])>>
                                    ELSE <<0, 1>>],
                                 counted)
         IN  IF Len(counted) = 0 THEN Fallback
             ELSE Value(Round2(sum[1], sum[2] * Len(counted)))

\* the comparison taken as variance <= 0.01 * mean ** 2
LowVarianceOrEqual(vals) ==
    LET m == Len(vals)
        S == SumSeq(vals)
        SS == SumSq(vals)
    IN  m >= 2 /\ 100 * m * (m * SS - S * S) <= (m - 1) * S * S

\* variance < 0.01 * mean ** 2 for the m values of a column (sample
\* variance, nan for m < 2): 100 m (m SS - S^2) < (m - 1) S^2
LowVariance(vals) ==
    LET m == Len(vals)
        S == SumSeq(vals)
        SS == SumSq(vals)
    IN  m >= 2 /\ 100 * m * (m * SS - S * S) < (m - 1) * S * S

\* calculate_variance_threshold_check
calculate_variance_threshold_check(t, numeric_cols) ==
    IF Len(numeric_cols) = 0 THEN Fallback
    ELSE Value(Round2(Len(SelectIn(numeric_cols, {c \in ColIdx(t) : LowVariance(NotNa(t.cols[c]))})),
                      Len(numeric_cols)))

\* calculate_data_density_completeness: the mean over the rows of the
\* share of present cells and the mean over the columns of the same are
\* both present / size; the mean of no rows or of no columns is nan
calculate_data_density_completeness(t) ==
    LET present == TotalCells(t) - MissingCells(t)
    IN  IF TotalCells(t) = 0 THEN Value(NaN)
        ELSE Value(Round2(present + present, 2 * TotalCells(t)))

\* calculate_label_noise_rate; noise is round(1 - dominant / total, 2) of
\* the k-means clustering.  KMeans raises on a missing feature value.
calculate_label_noise_rate(t, target_col, noise) ==
    IF TargetIdx(t, target_col) = 0 THEN Fallback
    ELSE LET tc == TargetIdx(t, target_col)
             subset == CompleteRows(t, {tc})
             features == {c \in ColIdx(t) : is_numeric_dtype(t.cols[c]) /\ c # tc}
         IN  IF NUnique(t.cols[tc]) > 10 /\ is_numeric_dtype(t.cols[tc]) THEN Fallback
             ELSE IF Cardinality(subset) < 20 THEN Fallback
             ELSE IF Cardinality(features) < 2 THEN Fallback
             ELSE IF \E c \in features, i \in subset : t.cols[c].cells[i] = NA THEN Raise
             ELSE Value(noise)

\* the numeric domain constraints: pattern -> the allowed interval
numeric_constraints ==
    [ age |-> <<0, 120>>, percent |-> <<0, 100>>, rate |-> <<0, 1>> ]

\* the cells of an object column for which ~x.str.contains('@', na=False)
\* holds: every cell but the strings holding '@', the missing cells included
NoAtCount(col) == Cardinality({i \in DOMAIN col.cells : col.cells[i] # StrAt})

\* the cells for which ~x.str.match(r'^\+?\d{8,15}$', na=False) holds: no
\* string of the model is a phone number
NoPhoneCount(col) == Len(col.cells)

\* total_checks of calculate_domain_constraint_violations
DomainChecks(t) ==
    SumSet([c \in ColIdx(t) |->
              LET col == t.cols[c]
                  has == NameHas(col.name)
              IN  (IF is_numeric_dtype(col)
                   THEN Cardinality(has \cap DOMAIN numeric_constraints) * Len(NotNa(col))
                   ELSE 0)
                  + (IF "date" \in has /\ is_date_column(col) /\ col.dtype = "float64"
                     THEN Len(NotNa(col)) ELSE 0)
                  + (IF col.dtype = "object"
                     THEN Cardinality(has \cap {"email", "phone"}) * Len(NotNa(col))
                     ELSE 0)],
           ColIdx(t))

\* violations of calculate_domain_constraint_violations; no date of the
\* model lies in the future
DomainViolations(t) ==
    SumSet([c \in ColIdx(t) |->
              LET col == t.cols[c]
                  has == NameHas(col.name)
              IN  (IF is_numeric_dtype(col)
                   THEN SumSet([p \in DOMAIN numeric_constraints |->
                                  OutsideCount(col, numeric_constraints[p][1],
                                               numeric_constraints[p][2])],
                               has \cap DOMAIN numeric_constraints)
                   ELSE 0)
                  + (IF col.dtype = "object" /\ "email" \in has THEN NoAtCount(col) ELSE 0)
                  + (IF col.dtype = "object" /\ "phone" \in has THEN NoPhoneCount(col) ELSE 0)],
           ColIdx(t))

\* calculate_domain_constraint_violations
calculate_domain_constraint_violations(t) ==
    IF HasNonStrLabel(t) THEN Raise
    ELSE IF DomainChecks(t) = 0 THEN Fallback
    ELSE Value(Round2(DomainViolations(t), DomainChecks(t)))

-----------------------------------------------------------------------------
(* Aggregator *)

\* a weight table of 19 entries: Domain_Constraint_Violations has none
weights_19 ==
    [name \in RawMetrics \ {"Domain_Constraint_Violations"} |->
        IF name = "Missing_Values_Pct" THEN 10 ELSE 5]

\* weights of calculate_data_quality_score, in hundredths
weights ==
    [ Missing_Values_Pct |-> 10,
      Duplicate_Records_Count |-> 5,
      Outlier_Rate |-> 5,
      Inconsistency_Rate |-> 5,
      Data_Type_Mismatch_Rate |-> 5,
      Null_vs_NaN_Distribution |-> 3,
      Cardinality_Categorical |-> 3,
      Target_Imbalance |-> 5,
      Feature_Correlation_Mean |-> 5,
      Range_Violation_Rate |-> 5,
      Mean_Median_Drift |-> 5,
      Class_Overlap_Score |-> 5,
      Data_Freshness |-> 3,
      Feature_Importance_Consistency |-> 5,
      Anomaly_Count |-> 5,
      Encoding_Coverage_Rate |-> 5,
      Variance_Threshold_Check |-> 5,
      Data_Density_Completeness |-> 5,
      Label_Noise_Rate |-> 5,
      Domain_Constraint_Violations |-> 6 ]

\* A normalized value is kept as a multiple of 1/Unit: Unit stands for 1.
\* Unit is a common multiple of every divisor of the normalization
\* (100, 0.2, 0.1, 50, 0.5, 365 and the hundredths of the raw values).
Unit == 100 * 7300

\* 1 - v / limit, without the min(1, .) clamp
LowerIsBetterUnclamped(v, limit) ==
    IF v = NaN THEN 0 ELSE Unit - v * (Unit \div limit)

\* 1 - min(1, v / limit), limit in hundredths; min(1, nan) is 1
LowerIsBetter(v, limit) ==
    IF v = NaN THEN 0 ELSE Unit - Min(Unit, v * (Unit \div limit))

\* v itself (higher is better); nan stays nan
AsIs(v) == IF v = NaN THEN NaN ELSE v * (Unit \div 100)

\* 1 - v; nan stays nan
Inverted(v) == IF v = NaN THEN NaN ELSE Unit - v * (Unit \div 100)

\* normalized_metrics[name] for the raw value v (in hundredths)
Normalize(name, v) ==
    CASE name = "Missing_Values_Pct" -> LowerIsBetter(v, 10000)
      [] name = "Duplicate_Records_Count" -> LowerIsBetter(v, 10000)
      [] name = "Outlier_Rate" -> LowerIsBetter(v, 20)
      [] name = "Inconsistency_Rate" -> LowerIsBetter(v, 20)
      [] name = "Data_Type_Mismatch_Rate" -> LowerIsBetter(v, 10)
      [] name = "Null_vs_NaN_Distribution" ->
            IF v = NaN THEN NaN ELSE Unit - 2 * Abs((Unit \div 2) - v * (Unit \div 100))
      [] name = "Cardinality_Categorical" -> Min(Unit, v * (Unit \div 5000))
      [] name = "Target_Imbalance" -> AsIs(v)
      [] name = "Feature_Correlation_Mean" -> Inverted(v)
      [] name = "Range_Violation_Rate" -> LowerIsBetter(v, 20)
      [] name = "Mean_Median_Drift" -> LowerIsBetter(v, 50)
      [] name = "Class_Overlap_Score" -> AsIs(v)
      [] name = "Data_Freshness" -> LowerIsBetter(v, 36500)
      [] name = "Feature_Importance_Consistency" -> AsIs(v)
      [] name = "Anomaly_Count" -> LowerIsBetter(v, 10000)
      [] name = "Encoding_Coverage_Rate" -> AsIs(v)
      [] name = "Variance_Threshold_Check" -> Inverted(v)
      [] name = "Data_Density_Completeness" -> AsIs(v)
      [] name = "Label_Noise_Rate" -> Inverted(v)
      [] name = "Domain_Constraint_Violations" -> LowerIsBetter(v, 20)

\* the sum with every metric given the same weight 0.05
WeightedScoreEqual(m) ==
    SumSet([name \in DOMAIN weights |-> Normalize(name, m[name]) * 5], DOMAIN weights)

\* weighted_score, as a multiple of 1/(100 Unit)
WeightedScore(m) ==
    SumSet([name \in DOMAIN weights |-> Normalize(name, m[name]) * weights[name]],
           DOMAIN weights)

\* a value of the metrics mapping that is not a number (a list, a str,
\* None): its normalization raises TypeError
NonNumeric == -2000000

\* the weighted sum over the metrics that do normalize, the others skipped
calculate_data_quality_score_partial(m) ==
    LET ok == {name \in DOMAIN weights \cap DOMAIN m :
                  m[name] # NonNumeric /\ Normalize(name, m[name]) # NaN}
    IN  Value(100 * RoundHalfEven(
                  SumSet([name \in ok |-> Normalize(name, m[name]) * weights[name]], ok),
                  Unit))

\* calculate_data_quality_score(metrics): a missing key raises KeyError, a
\* value that is not a number TypeError, round() of a nan weighted score
\* ValueError
calculate_data_quality_score(m) ==
    IF ~(DOMAIN weights \subseteq DOMAIN m) THEN Raise
    ELSE IF \E name \in DOMAIN weights : m[name] = NonNumeric THEN Raise
    ELSE IF \E name \in DOMAIN weights : Normalize(name, m[name]) = NaN THEN Raise
    ELSE Value(100 * RoundHalfEven(WeightedScore(m), Unit))

-----------------------------------------------------------------------------
(* What the seeded scikit-learn estimators and the entropy give on a       *)
(* table.  They are functions of the table, the target and the seed; the   *)
(* model fixes one outcome per behaviour, any outcome in the range of the  *)
(* algorithm.                                                              *)

\* IsolationForest runs: two numeric columns or more, none with a missing
\* value, and a sample
ForestRuns(t) ==
    LET numeric == detect_column_types(t).numeric
    IN  Len(ValidCols(t, numeric)) >= 2 /\ t.n >= 1

\* the counts of the classes of the target, when it has three or more
EntropyOutcomes(t, target_col) ==
    IF TargetIdx(t, target_col) = 0 THEN {0}
    ELSE LET vc == ValueCounts(t.cols[TargetIdx(t, target_col)])
         IN  IF Cardinality(DOMAIN vc) < 3 THEN {0}
             ELSE IF \A v, w \in DOMAIN vc : vc[v] = vc[w] THEN {100}
             ELSE 0..100

Outcomes(t, target_col) ==
    [ outliers : IF ForestRuns(t) THEN 0..t.n ELSE {0},
      anomalies : IF ForestRuns(t) THEN 0..t.n ELSE {0},
      entropy : EntropyOutcomes(t, target_col),
      silhouette : IF t.n >= 10 THEN 0..100 ELSE {0},
      consistency : IF t.n >= 20 THEN (0..100) \cup {NaN} ELSE {0},
      noise : IF t.n >= 20 THEN 0..100 ELSE {0} ]

-----------------------------------------------------------------------------
(* The engine *)

EngineIds == 1..MaxEngines

\* random_seed arguments of the constructor (42 is the default)
Seeds == {42, 7}

\* random.randint(1, 999) in generator state r
RandInt(r) == 1 + (r * 999) \div RngMod

NoEngine == [constructed |-> FALSE, dataset_id |-> 0, random_seed |-> 0]

\* the instance DataQualityMetrics(dataset_id, random_seed) built in
\* generator state r; given = FALSE is dataset_id=None, and the caller's
\* dataset_id is 0
NewEngine(given, seed, r) ==
    [constructed |-> TRUE,
     dataset_id |-> IF given THEN 0 ELSE RandInt(r),
     random_seed |-> seed]

NoFallback == [name |-> "", r |-> 0, u |-> 0, v |-> 0]

\* the call _get_random_fallback(metric_name) made in generator state r:
\* u is the value random.uniform drew (over RngMod), v the value returned
FallbackCall(metric_name, r) ==
    [name |-> metric_name,
     r |-> r,
     u |-> Uniform(RangeOf(metric_name)[1], RangeOf(metric_name)[2], r),
     v |-> get_random_fallback(metric_name, r)]

\* the names _get_random_fallback can be asked for
FallbackNames == AllMetrics \cup {"Unknown_Metric"}

\* target_col arguments tried on a table: None, a name no column has, and
\* the label of the first column
Targets(t) ==
    {"None", "zzz"} \cup (IF NCols(t) > 0 /\ t.cols[1].isstr THEN {t.cols[1].name} ELSE {})

\* DataQualityMetrics.__init__: the dataset id is drawn before the
\* process-wide generator is seeded
Construct(e, given, seed) ==
    /\ pc = "idle"
    /\ ~engines[e].constructed
    /\ \A d \in EngineIds : d < e => engines[d].constructed
    /\ engines' = [engines EXCEPT ![e] = NewEngine(given, seed, rng)]
    /\ rng' = SeedState(seed)
    /\ UNCHANGED <<df, target, sk, cur, pc, types, metrics, results, fb, raised, progress>>

\* a call of calculate_metrics(df, target_col) on instance e starts
CalculateMetrics(e) ==
    /\ pc = "idle"
    /\ ~raised
    /\ engines[e].constructed
    /\ Len(results) < MaxCalls
    /\ cur' = e
    /\ pc' = "detect"
    /\ metrics' = << >>
    /\ types' = detect_column_types(MakeTable(0, << >>, << >>))
    /\ UNCHANGED <<df, target, sk, rng, engines, results, fb, raised, progress>>

\* numeric_cols, categorical_cols, date_cols = self._detect_column_types(df)
\* and the first entry of the metrics dict
DetectColumnTypes ==
    /\ pc = "detect"
    /\ types' = detect_column_types(df)
    /\ metrics' = [k \in {"Dataset_ID"} |-> engines[cur].dataset_id]
    /\ pc' = MetricOrder[1]
    /\ UNCHANGED <<df, target, sk, rng, engines, cur, results, fb, raised, progress>>

\* the positions with the aggregator called one calculator early
NextPcEarlyScore(name) ==
    LET i == CHOOSE j \in DOMAIN MetricOrder : MetricOrder[j] = name
    IN  IF i >= Len(MetricOrder) - 1 THEN "score" ELSE MetricOrder[i + 1]

\* the position after the calculator of metric `name`
NextPc(name) ==
    LET i == CHOOSE j \in DOMAIN MetricOrder : MetricOrder[j] = name
    IN  IF i = Len(MetricOrder) THEN "score" ELSE MetricOrder[i + 1]

\* a calculator without its except clause: an exception leaves the try block
ExceptNothing(outcome) == outcome

\* the literals with one of them pasted from the calculator above:
\* calculate_encoding_coverage_rate asks for 'Cardinality_Categorical'
fallback_name_pasted ==
    [name \in AllMetrics |->
        IF name = "Encoding_Coverage_Rate" THEN "Cardinality_Categorical" ELSE name]

\* the literal each calculator passes to self._get_random_fallback, at
\* every one of its fallback returns
fallback_name ==
    [ Missing_Values_Pct |-> "Missing_Values_Pct",
      Duplicate_Records_Count |-> "Duplicate_Records_Count",
      Outlier_Rate |-> "Outlier_Rate",
      Inconsistency_Rate |-> "Inconsistency_Rate",
      Data_Type_Mismatch_Rate |-> "Data_Type_Mismatch_Rate",
      Null_vs_NaN_Distribution |-> "Null_vs_NaN_Distribution",
      Cardinality_Categorical |-> "Cardinality_Categorical",
      Target_Imbalance |-> "Target_Imbalance",
      Feature_Correlation_Mean |-> "Feature_Correlation_Mean",
      Range_Violation_Rate |-> "Range_Violation_Rate",
      Mean_Median_Drift |-> "Mean_Median_Drift",
      Class_Overlap_Score |-> "Class_Overlap_Score",
      Data_Freshness |-> "Data_Freshness",
      Feature_Importance_Consistency |-> "Feature_Importance_Consistency",
      Anomaly_Count |-> "Anomaly_Count",
      Encoding_Coverage_Rate |-> "Encoding_Coverage_Rate",
      Variance_Threshold_Check |-> "Variance_Threshold_Check",
      Data_Density_Completeness |-> "Data_Density_Completeness",
      Label_Noise_Rate |-> "Label_Noise_Rate",
      Domain_Constraint_Violations |-> "Domain_Constraint_Violations",
      Data_Quality_Score |-> "Data_Quality_Score" ]

\* `except Exception as e: ... return self._get_random_fallback(name)`:
\* what a try block's outcome becomes
ExceptException(outcome) == IF outcome.kind = "raise" THEN Fallback ELSE outcome

\* metrics[name] = <the calculator's result>, then on to position next
Store(name, outcome, next) ==
    LET o == ExceptException(outcome)
    IN  CASE o.kind = "value" ->
               /\ metrics' = (name :> o.v) @@ metrics
               /\ pc' = next
               /\ UNCHANGED <<rng, fb, raised, cur>>
          [] o.kind = "fallback" ->
               /\ metrics' = (name :> get_random_fallback(fallback_name[name], rng)) @@ metrics
               /\ fb' = FallbackCall(fallback_name[name], rng)
               /\ rng' = RngStep(rng)
               /\ pc' = next
               /\ UNCHANGED <<raised, cur>>
          [] OTHER ->
               /\ raised' = TRUE
               /\ pc' = "idle"
               /\ cur' = 0
               /\ UNCHANGED <<metrics, rng, fb>>

\* one calculator call of the metrics dict literal of calculate_metrics
Calc(name, outcome) ==
    /\ pc = name
    /\ Store(name, outcome, NextPc(name))
    /\ UNCHANGED <<df, target, sk, engines, types, results, progress>>

\* the outcome of the try block of the calculator of metric `name`, called
\* with the arguments calculate_metrics gives it
CalculatorOutcome(name) ==
    CASE name = "Missing_Values_Pct" ->
            calculate_missing_values_pct(df)
      [] name = "Duplicate_Records_Count" ->
            calculate_duplicate_records_count(df)
      [] name = "Outlier_Rate" ->
            calculate_outlier_rate(df, types.numeric, sk)
      [] name = "Inconsistency_Rate" ->
            calculate_inconsistency_rate(df)
      [] name = "Data_Type_Mismatch_Rate" ->
            calculate_data_type_mismatch_rate(df)
      [] name = "Null_vs_NaN_Distribution" ->
            calculate_null_vs_nan_distribution(df)
      [] name = "Cardinality_Categorical" ->
            calculate_cardinality_categorical(df, types.categorical)
      [] name = "Target_Imbalance" ->
            calculate_target_imbalance(df, target, sk.entropy)
      [] name = "Feature_Correlation_Mean" ->
            calculate_feature_correlation_mean(df, types.numeric)
      [] name = "Range_Violation_Rate" ->
            calculate_range_violation_rate(df, types.numeric)
      [] name = "Mean_Median_Drift" ->
            calculate_mean_median_drift(df, types.numeric)
      [] name = "Class_Overlap_Score" ->
            calculate_class_overlap_score(df, types.numeric, target, sk.silhouette)
      [] name = "Data_Freshness" ->
            calculate_data_freshness(df, types.date)
      [] name = "Feature_Importance_Consistency" ->
            calculate_feature_importance_consistency(df, types.numeric, target, sk.consistency)
      [] name = "Anomaly_Count" ->
            calculate_anomaly_count(df, types.numeric, sk)
      [] name = "Encoding_Coverage_Rate" ->
            calculate_encoding_coverage_rate(df, types.categorical)
      [] name = "Variance_Threshold_Check" ->
            calculate_variance_threshold_check(df, types.numeric)
      [] name = "Data_Density_Completeness" ->
            calculate_data_density_completeness(df)
      [] name = "Label_Noise_Rate" ->
            calculate_label_noise_rate(df, target, sk.noise)
      [] name = "Domain_Constraint_Violations" ->
            calculate_domain_constraint_violations(df)

CalcMissingValuesPct == Calc("Missing_Values_Pct", CalculatorOutcome("Missing_Values_Pct"))
CalcDuplicateRecordsCount == Calc("Duplicate_Records_Count", CalculatorOutcome("Duplicate_Records_Count"))
CalcOutlierRate == Calc("Outlier_Rate", CalculatorOutcome("Outlier_Rate"))
CalcInconsistencyRate == Calc("Inconsistency_Rate", CalculatorOutcome("Inconsistency_Rate"))
CalcDataTypeMismatchRate == Calc("Data_Type_Mismatch_Rate", CalculatorOutcome("Data_Type_Mismatch_Rate"))
CalcNullVsNanDistribution == Calc("Null_vs_NaN_Distribution", CalculatorOutcome("Null_vs_NaN_Distribution"))
CalcCardinalityCategorical == Calc("Cardinality_Categorical", CalculatorOutcome("Cardinality_Categorical"))
CalcTargetImbalance == Calc("Target_Imbalance", CalculatorOutcome("Target_Imbalance"))
CalcFeatureCorrelationMean == Calc("Feature_Correlation_Mean", CalculatorOutcome("Feature_Correlation_Mean"))
CalcRangeViolationRate == Calc("Range_Violation_Rate", CalculatorOutcome("Range_Violation_Rate"))
CalcMeanMedianDrift == Calc("Mean_Median_Drift", CalculatorOutcome("Mean_Median_Drift"))
CalcClassOverlapScore == Calc("Class_Overlap_Score", CalculatorOutcome("Class_Overlap_Score"))
CalcDataFreshness == Calc("Data_Freshness", CalculatorOutcome("Data_Freshness"))
CalcFeatureImportanceConsistency == Calc("Feature_Importance_Consistency", CalculatorOutcome("Feature_Importance_Consistency"))
CalcAnomalyCount == Calc("Anomaly_Count", CalculatorOutcome("Anomaly_Count"))
CalcEncodingCoverageRate == Calc("Encoding_Coverage_Rate", CalculatorOutcome("Encoding_Coverage_Rate"))
CalcVarianceThresholdCheck == Calc("Variance_Threshold_Check", CalculatorOutcome("Variance_Threshold_Check"))
CalcDataDensityCompleteness == Calc("Data_Density_Completeness", CalculatorOutcome("Data_Density_Completeness"))
CalcLabelNoiseRate == Calc("Label_Noise_Rate", CalculatorOutcome("Label_Noise_Rate"))
CalcDomainConstraintViolations == Calc("Domain_Constraint_Violations", CalculatorOutcome("Domain_Constraint_Violations"))

\* metrics['Data_Quality_Score'] = self.calculate_data_quality_score(metrics)
CalcDataQualityScore ==
    /\ pc = "score"
    /\ Store("Data_Quality_Score", calculate_data_quality_score(metrics), "return")
    /\ UNCHANGED <<df, target, sk, engines, types, results, progress>>

\* return pd.DataFrame([metrics])
Return ==
    /\ pc = "return"
    /\ results' = Append(results, [engine |-> cur,
                                   random_seed |-> engines[cur].random_seed,
                                   df |-> df,
                                   target |-> target,
                                   record |-> metrics])
    /\ pc' = "idle"
    /\ cur' = 0
    /\ UNCHANGED <<df, target, sk, rng, engines, types, metrics, fb, raised, progress>>

\* a direct call of _get_random_fallback(metric_name), as the callers of
\* the engine make it
GetRandomFallback(metric_name) ==
    /\ pc = "idle"
    /\ \E e \in EngineIds : engines[e].constructed
    /\ fb' = FallbackCall(metric_name, rng)
    /\ rng' = RngStep(rng)
    /\ UNCHANGED <<df, target, sk, engines, cur, pc, types, metrics, results, raised, progress>>

\* the steps of a running call
RunStep ==
    \/ DetectColumnTypes
    \/ CalcMissingValuesPct
    \/ CalcDuplicateRecordsCount
    \/ CalcOutlierRate
    \/ CalcInconsistencyRate
    \/ CalcDataTypeMismatchRate
    \/ CalcNullVsNanDistribution
    \/ CalcCardinalityCategorical
    \/ CalcTargetImbalance
    \/ CalcFeatureCorrelationMean
    \/ CalcRangeViolationRate
    \/ CalcMeanMedianDrift
    \/ CalcClassOverlapScore
    \/ CalcDataFreshness
    \/ CalcFeatureImportanceConsistency
    \/ CalcAnomalyCount
    \/ CalcEncodingCoverageRate
    \/ CalcVarianceThresholdCheck
    \/ CalcDataDensityCompleteness
    \/ CalcLabelNoiseRate
    \/ CalcDomainConstraintViolations
    \/ CalcDataQualityScore
    \/ Return

-----------------------------------------------------------------------------
(* Spec: one engine, built with a dataset id of the caller's, runs         *)
(* calculate_metrics once on a table of Tables.                            *)

Init ==
    /\ df \in Tables
    /\ target \in Targets(df)
    /\ sk \in Outcomes(df, target)
    /\ \E seed \in Seeds :
         /\ engines = [e \in EngineIds |-> IF e = 1 THEN NewEngine(TRUE, seed, 0) ELSE NoEngine]
         /\ rng = SeedState(seed)
    /\ cur = 0
    /\ pc = "idle"
    /\ types = detect_column_types(MakeTable(0, << >>, << >>))
    /\ metrics = << >>
    /\ results = << >>
    /\ fb = NoFallback
    /\ raised = FALSE
    /\ progress = << >>

\* the one call of Spec
FirstCall == results = << >> /\ CalculateMetrics(1)

Next == FirstCall \/ RunStep

Spec == Init /\ [][Next]_vars

-----------------------------------------------------------------------------
(* SpecCalls: a process that builds engines and calls calculate_metrics    *)
(* on them, any number of times up to MaxCalls, on one table.  The         *)
(* generator of module `random` starts in any state.                       *)

CallTables ==
    { MakeTable(0, << >>, << >>),
      MakeTable(2, << [name |-> "age", isstr |-> TRUE, dtype |-> "float64"],
                      [name |-> "email", isstr |-> TRUE, dtype |-> "object"] >>,
                   << "dense", "holes" >>) }

InitCalls ==
    /\ df \in CallTables
    /\ target = "None"
    /\ sk \in Outcomes(df, target)
    /\ rng \in 0..(RngMod - 1)
    /\ engines = [e \in EngineIds |-> NoEngine]
    /\ cur = 0
    /\ pc = "idle"
    /\ types = detect_column_types(MakeTable(0, << >>, << >>))
    /\ metrics = << >>
    /\ results = << >>
    /\ fb = NoFallback
    /\ raised = FALSE
    /\ progress = << >>

NextCalls ==
    \/ \E e \in EngineIds, given \in BOOLEAN, seed \in Seeds : Construct(e, given, seed)
    \/ \E e \in EngineIds : CalculateMetrics(e)
    \/ RunStep

SpecCalls == InitCalls /\ [][NextCalls]_vars

-----------------------------------------------------------------------------
(* SpecFallback: the fallback generator of a fresh engine, asked for any   *)
(* metric name, any number of times.                                       *)

InitFallback ==
    /\ df = MakeTable(0, << >>, << >>)
    /\ target = "None"
    /\ sk \in Outcomes(df, target)
    /\ \E seed \in Seeds :
         /\ engines = [e \in EngineIds |-> IF e = 1 THEN NewEngine(TRUE, seed, 0) ELSE NoEngine]
         /\ rng = SeedState(seed)
    /\ cur = 0
    /\ pc = "idle"
    /\ types = detect_column_types(df)
    /\ metrics = << >>
    /\ results = << >>
    /\ fb = NoFallback
    /\ raised = FALSE
    /\ progress = << >>

NextFallback == \E metric_name \in FallbackNames : GetRandomFallback(metric_name)

SpecFallback == InitFallback /\ [][NextFallback]_vars

-----------------------------------------------------------------------------
(* SpecMissing: the caller runs calculate_metrics, then cells of the       *)
(* table go missing, then it runs calculate_metrics again.                 *)

\* a present cell of a float64 or object column becomes missing (a bool
\* column cannot hold a missing value)
LoseCell(c, i) ==
    /\ pc = "idle"
    /\ Len(results) >= 1
    /\ Len(results) < MaxCalls
    /\ df.cols[c].dtype # "bool"
    /\ df.cols[c].cells[i] # NA
    /\ df' = [df EXCEPT !.cols[c].cells[i] = NA]
    /\ UNCHANGED <<target, sk, rng, engines, cur, pc, types, metrics, results, fb, raised, progress>>

InitMissing == Init /\ target = "None"

NextMissing ==
    \/ CalculateMetrics(1)
    \/ RunStep
    \/ \E c \in ColIdx(df), i \in Rows(df) : LoseCell(c, i)

SpecMissing == InitMissing /\ [][NextMissing]_vars

-----------------------------------------------------------------------------
(* Properties of calculate_metrics                                         *)

\* the records calculate_metrics has returned so far
Returned == { results[i].record : i \in DOMAIN results }

\* the positions of a call, each with its step in RunStep
Positions == {"idle", "detect", "score", "return"} \cup RawMetrics

\* C1: calculate_metrics never raises: no exception leaves a call, a
\* running call is always at a position whose step can be taken, and every
\* record returned has a value for each metric field.
C1_NeverRaises ==
    /\ ~raised
    /\ pc \in Positions
    /\ pc = "return" => AllMetrics \subseteq DOMAIN metrics
    /\ \A rec \in Returned : AllMetrics \subseteq DOMAIN rec

\* a record was returned for a table with a non-string column label, on
\* which two calculators raise inside their try blocks
C1_Witness ==
    /\ HasNonStrLabel(df)
    /\ calculate_inconsistency_rate(df) = Raise
    /\ Len(results) = 1

\* C2: no field of a returned record is a missing value (NaN); a
\* calculator that cannot compute its metric stores a fallback instead.
C2_NoMissingValue ==
    \A rec \in Returned : \A name \in AllMetrics : rec[name] # NaN

\* C3: the Data_Quality_Score of a returned record is an integer between
\* 0 and 100 inclusive.
C3_ScoreRange ==
    \A rec \in Returned :
        /\ rec["Data_Quality_Score"] % 100 = 0
        /\ rec["Data_Quality_Score"] >= 0
        /\ rec["Data_Quality_Score"] <= 10000

\* a record whose score is the weighted sum of its raw values, one of them
\* far beyond the limit of its normalization
C3_Witness ==
    /\ Len(results) = 1
    /\ fb.name # "Data_Quality_Score"
    /\ results[1].record["Data_Freshness"] > 36500
    /\ calculate_data_quality_score(results[1].record)
         = Value(results[1].record["Data_Quality_Score"])

\* the fields whose names end in _Rate
RateMetrics == { "Outlier_Rate", "Inconsistency_Rate", "Data_Type_Mismatch_Rate",
                 "Range_Violation_Rate", "Encoding_Coverage_Rate", "Label_Noise_Rate" }

\* C4: every field of a returned record whose name ends in _Rate lies
\* between 0 and 1 inclusive.
C4_RatesInUnitInterval ==
    \A rec \in Returned : \A name \in RateMetrics :
        rec[name] >= 0 /\ rec[name] <= 100

\* a record whose Inconsistency_Rate was computed from the table and is
\* not zero
C4_Witness ==
    /\ Len(results) = 1
    /\ calculate_inconsistency_rate(df).kind = "value"
    /\ results[1].record["Inconsistency_Rate"] > 0
    /\ results[1].record["Inconsistency_Rate"]
         = calculate_inconsistency_rate(df).v

\* C5: for every table, Missing_Values_Pct is (missing cells / total
\* cells) * 100, to two decimals, and lies between 0 and 100 inclusive.
C5_MissingPctOfEveryTable ==
    \A i \in DOMAIN results :
        LET pct == results[i].record["Missing_Values_Pct"]
            t == results[i].df
        IN  /\ pct >= 0
            /\ pct <= 10000
            /\ 2 * Abs(pct * TotalCells(t) - 10000 * MissingCells(t)) <= TotalCells(t)


\* table b has the shape of table a and differs from it only in cells
\* that are present in a and missing in b, at least one of them
LostCells(a, b) ==
    /\ a.n = b.n
    /\ NCols(a) = NCols(b)
    /\ \A c \in ColIdx(a) :
         /\ a.cols[c].name = b.cols[c].name
         /\ a.cols[c].dtype = b.cols[c].dtype
         /\ \A i \in Rows(a) :
              a.cols[c].cells[i] = b.cols[c].cells[i] \/ b.cols[c].cells[i] = NA
    /\ a # b

\* C6: monotonicity of Missing_Values_Pct: when a second table is the
\* first with some present cells turned missing, its Missing_Values_Pct is
\* a number greater than or equal to that of the first.
C6_MissingPctMonotone ==
    \A i \in DOMAIN results : \A j \in DOMAIN results :
        LostCells(results[i].df, results[j].df) =>
            /\ results[i].record["Missing_Values_Pct"] # NaN
            /\ results[j].record["Missing_Values_Pct"] # NaN
            /\ results[j].record["Missing_Values_Pct"]
                 >= results[i].record["Missing_Values_Pct"]

\* two records, the second for the table of the first with cells lost
C6_Witness ==
    /\ Len(results) = 2
    /\ LostCells(results[1].df, results[2].df)
    /\ results[2].record["Missing_Values_Pct"] > results[1].record["Missing_Values_Pct"]

\* C7: idempotence: two calls of calculate_metrics on the same table with
\* the same seed return records with identical metric values, fallback
\* values included.
C7_Idempotent ==
    \A i \in DOMAIN results : \A j \in DOMAIN results :
        ( /\ results[i].random_seed = results[j].random_seed
          /\ results[i].df = results[j].df
          /\ results[i].target = results[j].target )
        => \A name \in AllMetrics : results[i].record[name] = results[j].record[name]

\* C8: no mutable state is shared between calls or engines: once an engine
\* exists, neither a step of a call nor the construction of another engine
\* writes the random-generator state that later calls read.
C8_NoSharedState ==
    [][(\E e \in EngineIds : engines[e].constructed) => rng' = rng]_vars

\* C9: _get_random_fallback returns a value within the configured
\* (low, high) of a metric in the range table, and within [0, 1] for a name
\* that is not in the table.
C9_FallbackInRange ==
    fb.name # "" =>
        IF fb.name \in DOMAIN metric_ranges
        THEN /\ fb.v >= metric_ranges[fb.name][1]
             /\ fb.v <= metric_ranges[fb.name][2]
        ELSE fb.v >= 0 /\ fb.v <= 100

\* a fallback was asked for a name that is not in the range table
C9_Witness ==
    /\ fb.name = "Unknown_Metric"
    /\ fb.name \notin DOMAIN metric_ranges
    /\ fb.v > 0

\* C10: _get_random_fallback has three output shapes: the value drawn is
\* truncated to an integer for the three count metrics, rounded to the
\* nearest integer for Data_Quality_Score, and rounded to two decimals for
\* every other name.  (fb.u / RngMod is the value drawn, in hundredths.)
C10_OutputShapes ==
    fb.name # "" =>
        IF fb.name \in {"Duplicate_Records_Count", "Anomaly_Count", "Cardinality_Categorical"}
        THEN /\ fb.v % 100 = 0
             /\ fb.v * RngMod <= fb.u
             /\ fb.u < (fb.v + 100) * RngMod
        ELSE IF fb.name = "Data_Quality_Score"
        THEN /\ fb.v % 100 = 0
             /\ Abs(fb.u - fb.v * RngMod) <= 50 * RngMod
        ELSE 2 * Abs(fb.u - fb.v * RngMod) <= RngMod

\* a count metric's fallback whose drawn value was not an integer
C10_Witness ==
    /\ fb.name = "Anomaly_Count"
    /\ fb.u % (100 * RngMod) # 0
    /\ fb.v * RngMod < fb.u


-----------------------------------------------------------------------------
(* Properties of the calculators, the classifier and the aggregator        *)

\* C11: whenever the computation of a calculator raises or its
\* precondition is inapplicable, the value it contributes is the fallback
\* generator's value for the calculator's own metric name, within that
\* metric's range, and no error propagates; in particular, with no
\* categorical column, Cardinality_Categorical and Encoding_Coverage_Rate
\* are such fallback values.
C11_OwnNameFallback ==
    [][\A name \in RawMetrics :
         ( /\ pc = name
           /\ \/ CalculatorOutcome(name).kind # "value"
              \/ /\ name \in {"Cardinality_Categorical", "Encoding_Coverage_Rate"}
                 /\ types.categorical = << >> )
         => /\ ~raised'
            /\ fb' = FallbackCall(name, rng)
            /\ name \in DOMAIN metrics'
            /\ metrics'[name] = fb'.v
            /\ metrics'[name] >= RangeOf(name)[1]
            /\ metrics'[name] <= RangeOf(name)[2]]_vars

\* a table with columns, none of them categorical: the encoding coverage
\* just stored is the fallback drawn for its own name
C11_Witness ==
    /\ pc = "Variance_Threshold_Check"
    /\ NCols(df) > 0
    /\ types.categorical = << >>
    /\ fb.name = "Encoding_Coverage_Rate"
    /\ metrics["Encoding_Coverage_Rate"] = fb.v
    /\ metrics["Cardinality_Categorical"] >= 100


\* the column classification of the running call is done
Classified == pc \in RawMetrics \cup {"score", "return"}

\* C12: _detect_column_types returns three pairwise disjoint lists
\* (numeric, categorical, temporal) whose union is exactly the columns of
\* the table, each column once; a column that passes the temporal test is
\* in the temporal list even when its storage type is numeric.
C12_ClassifierPartition ==
    Classified =>
        /\ Range(types.numeric) \cap Range(types.categorical) = {}
        /\ Range(types.numeric) \cap Range(types.date) = {}
        /\ Range(types.categorical) \cap Range(types.date) = {}
        /\ Range(types.numeric) \cup Range(types.categorical) \cup Range(types.date)
             = ColIdx(df)
        /\ Len(types.numeric) + Len(types.categorical) + Len(types.date) = NCols(df)
        /\ \A c \in ColIdx(df) :
             ~to_datetime_raises(df.cols[c]) => c \in Range(types.date)

\* a table classified into numeric and temporal columns, a temporal one
\* with a numeric storage type
C12_Witness ==
    /\ Classified
    /\ types.numeric # << >>
    /\ \E c \in Range(types.date) : is_numeric_dtype(df.cols[c])


\* C13 as stated: every column on which type probing throws is classified
\* as categorical.
C13_RaisingProbeIsCategorical ==
    Classified =>
        \A c \in ColIdx(df) :
            to_datetime_raises(df.cols[c]) => c \in Range(types.categorical)

\* C13, amended: the classifier has no error path; a column on which the
\* date probing throws is classified by its storage type, numeric when the
\* dtype is numeric and categorical otherwise.
C13_RaisingProbeByStorageType ==
    /\ ~raised
    /\ Classified =>
         \A c \in ColIdx(df) :
             to_datetime_raises(df.cols[c]) =>
                 IF is_numeric_dtype(df.cols[c])
                 THEN c \in Range(types.numeric)
                 ELSE c \in Range(types.categorical)

\* a classified table with a numeric (bool) column on which the date
\* probing throws
C13_Witness ==
    /\ Classified
    /\ \E c \in Range(types.numeric) :
         to_datetime_raises(df.cols[c]) /\ df.cols[c].dtype = "bool"


\* the running call has computed its score as a weighted sum: the last
\* fallback drawn is not the score's
ScoreComputed == pc = "return" /\ fb.name # "Data_Quality_Score"

\* C14: the weight table has exactly 20 entries, one per raw metric, and
\* the weights sum to 1.0 (100 hundredths); the score is the weighted sum
\* of the normalized values times 100, rounded to the nearest integer.
C14_WeightTableAndScore ==
    /\ DOMAIN weights = RawMetrics
    /\ Cardinality(DOMAIN weights) = 20
    /\ SumSet(weights, DOMAIN weights) = 100
    /\ ScoreComputed =>
         LET sum == SumSet([name \in RawMetrics |->
                              Normalize(name, metrics[name]) * weights[name]],
                           RawMetrics)
             score == metrics["Data_Quality_Score"]
         IN  /\ score % 100 = 0
             /\ 2 * Abs((score \div 100) * Unit - sum) <= Unit

\* a call has computed a score strictly between 0 and 100
C14_Witness ==
    /\ ScoreComputed
    /\ metrics["Data_Quality_Score"] > 0
    /\ metrics["Data_Quality_Score"] < 10000
    /\ \A name \in RawMetrics : metrics[name] # NaN


-----------------------------------------------------------------------------
(* SpecScore: after a call of calculate_metrics, the caller hands          *)
(* calculate_data_quality_score a metrics mapping of its own: the raw      *)
(* values of the record, or those with one key missing, or with one value  *)
(* that is not a number.                                                   *)

\* the mappings built from the raw values of record rec
ScoreInputs(rec) ==
    LET raw == [name \in RawMetrics |-> rec[name]]
    IN  {raw}
        \cup { [name \in RawMetrics \ {k} |-> rec[name]] : k \in RawMetrics }
        \cup { [raw EXCEPT ![k] = NonNumeric] : k \in RawMetrics }

\* m['Data_Quality_Score'] = engine.calculate_data_quality_score(m)
CallDataQualityScore(m) ==
    /\ pc = "idle"
    /\ results # << >>
    /\ metrics = results[Len(results)].record
    /\ LET o == ExceptException(calculate_data_quality_score(m))
       IN  CASE o.kind = "value" ->
                  /\ metrics' = ("Data_Quality_Score" :> o.v) @@ m
                  /\ UNCHANGED <<rng, fb, raised>>
             [] o.kind = "fallback" ->
                  /\ metrics' = ("Data_Quality_Score" :>
                                   get_random_fallback(fallback_name["Data_Quality_Score"], rng)) @@ m
                  /\ fb' = FallbackCall(fallback_name["Data_Quality_Score"], rng)
                  /\ rng' = RngStep(rng)
                  /\ UNCHANGED raised
             [] OTHER ->
                  /\ raised' = TRUE
                  /\ UNCHANGED <<metrics, rng, fb>>
    /\ UNCHANGED <<df, target, sk, engines, cur, pc, types, results, progress>>

NextScore ==
    \/ FirstCall
    \/ RunStep
    \/ /\ results # << >>
       /\ \E m \in ScoreInputs(results[Len(results)].record) : CallDataQualityScore(m)

SpecScore == Init /\ [][NextScore]_vars

\* the mapping of a direct call lacks a raw metric or holds a value that
\* is not a number
FailedNormalization ==
    /\ pc = "idle"
    /\ results # << >>
    /\ metrics # results[Len(results)].record
    /\ \E name \in RawMetrics : name \notin DOMAIN metrics \/ metrics[name] = NonNumeric

\* C15: the aggregator has no partial-failure mode: when the normalization
\* of any one metric fails (missing key or non-numeric value) the score
\* returned is the fallback drawn for Data_Quality_Score, an integer in
\* 0..100, and no exception leaves the aggregator.
C15_NoPartialScore ==
    /\ ~raised
    /\ FailedNormalization =>
         /\ fb.name = "Data_Quality_Score"
         /\ metrics["Data_Quality_Score"] = fb.v
         /\ fb.v % 100 = 0
         /\ fb.v >= 0
         /\ fb.v <= 10000

\* the aggregator was given a mapping without Missing_Values_Pct, all
\* other values numbers
C15_Witness ==
    /\ FailedNormalization
    /\ "Missing_Values_Pct" \notin DOMAIN metrics
    /\ \A name \in RawMetrics \ {"Missing_Values_Pct"} : metrics[name] >= 0


\* C16: for every raw metric value a calculator returns, computed or
\* fallback, the normalized goodness lies in [0, 1]; it is
\* 1 - min(1, pct/100) for Missing_Values_Pct, the raw value for
\* Target_Imbalance and 1 - 2*|0.5 - v| for Null_vs_NaN_Distribution.
C16_NormalizedInUnitInterval ==
    \A name \in RawMetrics \cap DOMAIN metrics :
        LET v == metrics[name]
            g == Normalize(name, v)
        IN  /\ g # NaN
            /\ g >= 0
            /\ g <= Unit
            /\ (name = "Missing_Values_Pct" /\ v # NaN) =>
                 g = Unit - Min(Unit, v * (Unit \div 10000))
            /\ (name = "Target_Imbalance" /\ v # NaN) => g = v * (Unit \div 100)
            /\ (name = "Null_vs_NaN_Distribution" /\ v # NaN) =>
                 g = Unit - 2 * Abs((Unit \div 2) - v * (Unit \div 100))


\* the metric names of a record: its keys but the dataset identifier
MetricNames(rec) == DOMAIN rec \ {"Dataset_ID"}

\* C17 as stated: the record holds 20 metric names, Data_Quality_Score the
\* 20th, and the aggregator consumes exactly the 19 other values.
C17_TwentyNamesWithScore ==
    \A rec \in Returned :
        /\ "Data_Quality_Score" \in MetricNames(rec)
        /\ Cardinality(MetricNames(rec)) = 20
        /\ Cardinality(DOMAIN weights) = 19
        /\ DOMAIN weights = MetricNames(rec) \ {"Data_Quality_Score"}

\* C17, amended: the record holds a fixed set of 21 metric names, each
\* exactly once: the 20 raw metrics, stored once each before the aggregator
\* runs, and Data_Quality_Score; the aggregator consumes exactly the 20 raw
\* values and its output completes the set.
C17_TwentyRawNamesAndScore ==
    /\ Len(MetricOrder) = 20
    /\ Cardinality(Range(MetricOrder)) = 20
    /\ pc = "score" => MetricNames(metrics) = DOMAIN weights
    /\ \A rec \in Returned :
         /\ "Data_Quality_Score" \in MetricNames(rec)
         /\ Cardinality(MetricNames(rec)) = 21
         /\ Cardinality(DOMAIN weights) = 20
         /\ DOMAIN weights = MetricNames(rec) \ {"Data_Quality_Score"}

\* a record was returned whose score the aggregator computed from its 20
\* raw values
C17_Witness ==
    /\ Len(results) = 1
    /\ fb.name # "Data_Quality_Score"
    /\ calculate_data_quality_score([name \in RawMetrics |-> results[1].record[name]])
         = Value(results[1].record["Data_Quality_Score"])
    /\ Cardinality(DOMAIN results[1].record) = 22


\* C18: in every run of calculate_metrics the classifier runs exactly once
\* and before any calculator, and the aggregator runs only after all raw
\* metric values are stored in the record, never on a record with a raw
\* metric absent.
C18_ClassifierFirstAggregatorLast ==
    [][/\ pc' = "detect" => pc = "idle"
       /\ pc = "detect" => (metrics = << >> /\ pc' = MetricOrder[1])
       /\ types' # types => pc \in {"idle", "detect"}
       /\ pc \in RawMetrics =>
            /\ types = detect_column_types(df)
            /\ pc' \in RawMetrics \cup {"score"}
       /\ \A name \in RawMetrics :
            (name \in DOMAIN metrics' /\ name \notin DOMAIN metrics) => pc = name
       /\ pc = "score" =>
            /\ RawMetrics \subseteq DOMAIN metrics
            /\ "Data_Quality_Score" \notin DOMAIN metrics
            /\ "Data_Quality_Score" \in DOMAIN metrics'
       /\ ("Data_Quality_Score" \in DOMAIN metrics' /\ "Data_Quality_Score" \notin DOMAIN metrics)
            => pc = "score"]_vars

\* the aggregator is about to run on the record of a table with columns
C18_Witness ==
    /\ pc = "score"
    /\ NCols(df) > 0
    /\ types = detect_column_types(df)
    /\ RawMetrics \subseteq DOMAIN metrics


\* what the calculator of metric `name` contributes when it is the first
\* to run from the seeded state of the engine of the running call
ContributionWhenFirst(name) ==
    IF CalculatorOutcome(name).kind = "value"
    THEN CalculatorOutcome(name).v
    ELSE get_random_fallback(name, SeedState(engines[cur].random_seed))

\* C19: calculator calls are independent: the value a calculator
\* contributes to the record does not depend on which calculators ran
\* before it, so any order of the calculators from the same seeded engine
\* state gives the same record.
C19_CalculatorsIndependent ==
    Classified =>
        \A name \in RawMetrics \cap DOMAIN metrics :
            metrics[name] = ContributionWhenFirst(name)


\* the calculators that read the target column
TargetMetrics == { "Target_Imbalance", "Class_Overlap_Score",
                   "Feature_Importance_Consistency", "Label_Noise_Rate" }

\* target_col is None or the label of no column of the table
TargetAbsent ==
    \/ target = "None"
    \/ \A c \in ColIdx(df) : ~(df.cols[c].isstr /\ df.cols[c].name = target)

\* C20: when target_col is None or names no column of the table, each of
\* the four target-dependent calculators returns a fallback value inside
\* the declared range of its metric, and none raises.
C20_TargetAbsentFallback ==
    [][\A name \in TargetMetrics :
         (pc = name /\ TargetAbsent) =>
            /\ ~raised'
            /\ fb' = FallbackCall(name, rng)
            /\ name \in DOMAIN metrics'
            /\ metrics'[name] = fb'.v
            /\ metrics'[name] >= metric_ranges[name][1]
            /\ metrics'[name] <= metric_ranges[name][2]]_vars

\* the four calculators have run on a table with columns and a target
\* name that no column has
C20_Witness ==
    /\ pc = "Domain_Constraint_Violations"
    /\ target = "zzz"
    /\ TargetAbsent
    /\ NCols(df) > 0 /\ df.n > 0
    /\ fb.name = "Label_Noise_Rate"
    /\ metrics["Label_Noise_Rate"] = fb.v

-----------------------------------------------------------------------------
(* SpecTarget: calculate_target_imbalance called on a target column of     *)
(* two classes, with up to MaxCount rows of each, and missing cells.       *)

\* n copies of the value v
Repeat(v, n) == [i \in 1..n |-> v]

\* a table whose one column "label" holds a rows of one class, b of
\* another and c missing cells
TargetTable(a, b, c) ==
    [ n |-> a + b + c,
      cols |-> << [ name |-> "label", isstr |-> TRUE, dtype |-> "object",
                    cells |-> Repeat(StrAt, a) \o Repeat(StrPlain, b) \o Repeat(NA, c) ] >> ]

TargetTables == { TargetTable(a, b, c) : a \in 0..MaxCount, b \in 0..MaxCount, c \in 0..1 }

\* the estimators are not reached by calculate_target_imbalance
NoEstimator ==
    [outliers |-> 0, anomalies |-> 0, entropy |-> 0,
     silhouette |-> 0, consistency |-> 0, noise |-> 0]

InitTarget ==
    /\ df \in TargetTables
    /\ target = "label"
    /\ sk = NoEstimator
    /\ engines = [e \in EngineIds |-> IF e = 1 THEN NewEngine(TRUE, 42, 0) ELSE NoEngine]
    /\ rng = SeedState(42)
    /\ cur = 0
    /\ pc = "idle"
    /\ types = detect_column_types(df)
    /\ metrics = << >>
    /\ results = << >>
    /\ fb = NoFallback
    /\ raised = FALSE
    /\ progress = << >>

\* imbalance = metrics_calculator.calculate_target_imbalance(df, target_column)
CallTargetImbalance ==
    /\ pc = "idle"
    /\ "Target_Imbalance" \notin DOMAIN metrics
    /\ Store("Target_Imbalance", CalculatorOutcome("Target_Imbalance"), "idle")
    /\ UNCHANGED <<df, target, sk, engines, types, results, progress>>

NextTarget == CallTargetImbalance

SpecTarget == InitTarget /\ [][NextTarget]_vars

\* the number of rows of the two classes of the target of SpecTarget
ClassA == CountIn(df.cols[1].cells, {StrAt})
ClassB == CountIn(df.cols[1].cells, {StrPlain})

\* Target_Imbalance has been computed on a target of two classes
TwoClassesMeasured ==
    /\ "Target_Imbalance" \in DOMAIN metrics
    /\ ClassA > 0
    /\ ClassB > 0

\* v (in hundredths) is 2 x minority / total rounded to two decimals
IsTwiceMinorityFraction(v) ==
    2 * Abs(v * (ClassA + ClassB) - 200 * Min(ClassA, ClassB)) <= ClassA + ClassB

\* C21 as stated: on a two-class target Target_Imbalance is
\* 2 x minority / total, is never above 1.0, and is 1.0 exactly when the
\* two classes have equal counts; on a one-class target it is exactly 1.0.
C21_OneOnlyWhenEqualCounts ==
    /\ TwoClassesMeasured =>
         /\ IsTwiceMinorityFraction(metrics["Target_Imbalance"])
         /\ metrics["Target_Imbalance"] <= 100
         /\ metrics["Target_Imbalance"] = 100 <=> ClassA = ClassB
    /\ ("Target_Imbalance" \in DOMAIN metrics /\ (ClassA = 0) # (ClassB = 0)) =>
         metrics["Target_Imbalance"] = 100

\* C21 amended: on a two-class target Target_Imbalance is
\* 2 x minority / total rounded to two decimals and never above 1.0; it is
\* 1.0 when the counts are equal, and also whenever 2 x minority / total is
\* within 0.005 of 1 (100 rows against 101); on a one-class target it is
\* exactly 1.0.
C21_OneWhenRoundsToOne ==
    /\ TwoClassesMeasured =>
         /\ IsTwiceMinorityFraction(metrics["Target_Imbalance"])
         /\ metrics["Target_Imbalance"] <= 100
         /\ ClassA = ClassB => metrics["Target_Imbalance"] = 100
         /\ metrics["Target_Imbalance"] = 100
              <=> 200 * (ClassA + ClassB - 2 * Min(ClassA, ClassB)) <= ClassA + ClassB
    /\ ("Target_Imbalance" \in DOMAIN metrics /\ (ClassA = 0) # (ClassB = 0)) =>
         metrics["Target_Imbalance"] = 100

\* a target of 100 rows against 101 measured as perfectly balanced
C21_Witness ==
    /\ TwoClassesMeasured
    /\ ClassA # ClassB
    /\ metrics["Target_Imbalance"] = 100

\* the number of distinct rows of a table
DistinctRows(t) == Cardinality({RowOf(t, i) : i \in Rows(t)})

\* the table has no missing cell
NoMissingCell(t) == \A c \in ColIdx(t) : \A i \in Rows(t) : t.cols[c].cells[i] # NA

\* C22: Duplicate_Records_Count is the row count minus the number of
\* distinct rows, and Missing_Values_Pct is 0.0 for a table with no
\* missing cells.
C22_DuplicatesAndNoMissing ==
    \A i \in DOMAIN results :
        LET rec == results[i].record
            t == results[i].df
        IN  /\ rec["Duplicate_Records_Count"] = 100 * (t.n - DistinctRows(t))
            /\ NoMissingCell(t) => rec["Missing_Values_Pct"] = 0

\* the columns whose cells Data_Type_Mismatch_Rate checks: not entirely
\* missing, and of a numeric storage type or in the temporal list
CheckedColumns ==
    {c \in ColIdx(df) :
        /\ \E i \in Rows(df) : df.cols[c].cells[i] # NA
        /\ (df.cols[c].dtype \in {"float64", "bool"} \/ c \in Range(types.date))}

\* the cells of a column that fail a check: in a column of numeric storage
\* type the cells whose text is no plain decimal ('True', 'False', 'nan');
\* a temporal column has none, it has passed the date parse whole
FailingCells(c) ==
    IF df.cols[c].dtype = "bool" THEN df.n
    ELSE IF df.cols[c].dtype = "float64" THEN CountIn(df.cols[c].cells, {NA})
    ELSE 0

\* Data_Type_Mismatch_Rate is stored without a draw of the fallback
\* generator, as failing cells / checked cells to two decimals
MismatchRateComputed ==
    LET failing == SumSet([c \in ColIdx(df) |-> FailingCells(c)], CheckedColumns)
        checked == df.n * Cardinality(CheckedColumns)
    IN  /\ rng' = rng
        /\ fb' = fb
        /\ "Data_Type_Mismatch_Rate" \in DOMAIN metrics'
        /\ 2 * Abs(metrics'["Data_Type_Mismatch_Rate"] * checked - 100 * failing) <= checked

\* C25 as stated: on a non-empty table Data_Type_Mismatch_Rate is always
\* computed, never a fallback, whatever the kinds of the columns, and is
\* (failing numeric cells + failing temporal cells) / checked cells.
C25_MismatchRateAlwaysComputed ==
    [][(pc = "Data_Type_Mismatch_Rate" /\ TotalCells(df) > 0) => MismatchRateComputed]_vars

\* C25 amended: Data_Type_Mismatch_Rate is computed as (failing numeric
\* cells + failing temporal cells) / checked cells when the table has a
\* column of numeric storage type or a temporal column that is not entirely
\* missing; a table with none (only categorical columns) has no checked
\* cell and the metric is the fallback for its own name.
C25_MismatchRateComputedWhenChecked ==
    [][pc = "Data_Type_Mismatch_Rate" =>
         IF CheckedColumns # {} THEN MismatchRateComputed
         ELSE /\ fb' = FallbackCall("Data_Type_Mismatch_Rate", rng)
              /\ "Data_Type_Mismatch_Rate" \in DOMAIN metrics'
              /\ metrics'["Data_Type_Mismatch_Rate"] = fb'.v]_vars

\* a numeric column with a missing cell in one of its two rows has been
\* measured: half of the checked cells fail
C25_Witness ==
    /\ pc = "Null_vs_NaN_Distribution"
    /\ NCols(df) = 1
    /\ df.cols[1].dtype = "float64"
    /\ CheckedColumns = {1}
    /\ FailingCells(1) = 1
    /\ metrics["Data_Type_Mismatch_Rate"] = 50

\* a table of one categorical column with rows: the metric is a fallback
C25_CategoricalOnly ==
    /\ pc = "Null_vs_NaN_Distribution"
    /\ TotalCells(df) > 0
    /\ CheckedColumns = {}
    /\ fb.name = "Data_Type_Mismatch_Rate"

\* C24: on a table with zero rows or zero columns calculate_metrics does
\* not raise, and every one of the 20 metrics is resolved by the fallback
\* generator rather than by its formula.
C24_EmptyTableAllFallback ==
    [][\A name \in RawMetrics :
         (pc = name /\ TotalCells(df) = 0) =>
            /\ ~raised'
            /\ fb' = FallbackCall(name, rng)
            /\ name \in DOMAIN metrics'
            /\ metrics'[name] = fb'.v]_vars

-----------------------------------------------------------------------------
(* SpecScenario: calculate_metrics run once on the tables of the           *)
(* scenarios: a numeric column of constant value 5, alone or next to a     *)
(* flag column, and an email column with a missing cell.                   *)

\* a table of n rows from the columns given as <<name, dtype, cells>>
ScenarioTable(n, columns) ==
    [ n |-> n,
      cols |-> [ c \in DOMAIN columns |->
                   [ name |-> columns[c][1], isstr |-> TRUE,
                     dtype |-> columns[c][2], cells |-> columns[c][3] ] ] ]

\* a column "x" that is 5 in every row
ConstantFive(n) == << "x", "float64", Repeat(5, n) >>

ScenarioTables ==
    { ScenarioTable(n, << ConstantFive(n) >>) : n \in 1..(MaxRows + 1) }
    \cup { ScenarioTable(n, << ConstantFive(n),
                               << "flag", "bool", [i \in 1..n |-> Cell("bool", "holes", i)] >> >>) :
             n \in 1..(MaxRows + 1) }
    \cup { ScenarioTable(n, << << "email", "object", << NA >> \o Repeat(s, n - 1) >> >>) :
             n \in 2..(MaxRows + 1), s \in {StrPlain, StrAt} }

InitScenario ==
    /\ df \in ScenarioTables
    /\ target = "None"
    /\ sk \in Outcomes(df, target)
    /\ \E seed \in Seeds :
         /\ engines = [e \in EngineIds |-> IF e = 1 THEN NewEngine(TRUE, seed, 0) ELSE NoEngine]
         /\ rng = SeedState(seed)
    /\ cur = 0
    /\ pc = "idle"
    /\ types = detect_column_types(MakeTable(0, << >>, << >>))
    /\ metrics = << >>
    /\ results = << >>
    /\ fb = NoFallback
    /\ raised = FALSE
    /\ progress = << >>

NextScenario == FirstCall \/ RunStep

SpecScenario == InitScenario /\ [][NextScenario]_vars

\* the columns of numeric storage type of a table
NumericStorage(t) == {c \in ColIdx(t) : t.cols[c].dtype \in {"float64", "bool"}}

\* the numeric columns of a table whose value is 5 in every row
ConstantFiveColumns(t) ==
    {c \in ColIdx(t) : t.cols[c].dtype = "float64" /\ t.n > 0
                       /\ \A i \in Rows(t) : t.cols[c].cells[i] = 5}

\* C23: a numeric column whose value is the constant 5 in every row is
\* flagged as low-variance by Variance_Threshold_Check and contributes
\* exactly 1/num_numeric_cols to the returned rate: the rate is at least
\* (constant columns) / (numeric columns).
C23_ConstantColumnFlagged ==
    \A i \in DOMAIN results :
        LET t == results[i].df
            rate == results[i].record["Variance_Threshold_Check"]
            m == Cardinality(NumericStorage(t))
        IN  ConstantFiveColumns(t) # {} =>
                2 * rate * m + m >= 200 * Cardinality(ConstantFiveColumns(t))

\* the smallest number of most-frequent distinct values of a column whose
\* cumulative frequency reaches 80%
CategoriesToCover(col) ==
    LET vc == ValueCounts(col)
        m == Len(NotNa(col))
        enough == {k \in 1..Cardinality(DOMAIN vc) : 5 * TopTotal(vc, k) >= 4 * m}
    IN  CHOOSE k \in enough : \A j \in enough : k <= j

\* C26: the per-column value used by Encoding_Coverage_Rate is (the
\* smallest number of most-frequent distinct values whose cumulative
\* frequency reaches 80%) / (number of distinct values), 1/1 for a column
\* with a single distinct value; with one categorical column the metric is
\* that value.
C26_CoverageReaches80 ==
    \A i \in DOMAIN results :
        LET t == results[i].df
            categorical == detect_column_types(t).categorical
            col == t.cols[categorical[1]]
            rate == results[i].record["Encoding_Coverage_Rate"]
        IN  (Len(categorical) = 1 /\ NUnique(col) > 0) =>
                2 * Abs(rate * NUnique(col) - 100 * CategoriesToCover(col)) <= NUnique(col)

\* C27: Domain_Constraint_Violations is violations / checked values where
\* every violation is a checked value: the violation count never exceeds
\* the checked-value count and the metric lies in [0,1], also for email
\* columns with missing values.
C27_ViolationsWithinChecks ==
    \A i \in DOMAIN results :
        LET t == results[i].df
            rate == results[i].record["Domain_Constraint_Violations"]
        IN  /\ rate >= 0
            /\ rate <= 100
            /\ DomainChecks(t) > 0 => DomainViolations(t) <= DomainChecks(t)

-----------------------------------------------------------------------------
(* SpecVariance: calculate_variance_threshold_check called with a table    *)
(* of one or two float columns and a numeric_cols list of the caller's.    *)

\* the cells of the columns of SpecVariance
VarianceValues == {0, 100, 101, NA}

VarianceTables ==
    UNION { { ScenarioTable(n, [c \in 1..k |-> << <<"x", "y">>[c], "float64", cells[c] >>]) :
                cells \in [1..k -> [1..n -> VarianceValues]] } :
            n \in 0..MaxRows, k \in 1..2 }

\* the numeric_cols lists the caller passes
NumericColsArguments(t) == {s \in {<< >>, << 1 >>, AllCols(t)} : Range(s) \subseteq ColIdx(t)}

InitVariance ==
    /\ df \in VarianceTables
    /\ target = "None"
    /\ sk = NoEstimator
    /\ engines = [e \in EngineIds |-> IF e = 1 THEN NewEngine(TRUE, 42, 0) ELSE NoEngine]
    /\ rng = SeedState(42)
    /\ cur = 0
    /\ pc = "idle"
    /\ \E numeric_cols \in NumericColsArguments(df) :
         types = [numeric |-> numeric_cols, categorical |-> << >>, date |-> << >>]
    /\ metrics = << >>
    /\ results = << >>
    /\ fb = NoFallback
    /\ raised = FALSE
    /\ progress = << >>

\* calculate_variance_threshold_check(df, numeric_cols)
CallVarianceThresholdCheck ==
    /\ pc = "idle"
    /\ "Variance_Threshold_Check" \notin DOMAIN metrics
    /\ Store("Variance_Threshold_Check",
             calculate_variance_threshold_check(df, types.numeric), "idle")
    /\ UNCHANGED <<df, target, sk, engines, types, results, progress>>

NextVariance == CallVarianceThresholdCheck

SpecVariance == InitVariance /\ [][NextVariance]_vars

\* the present values of column c
Present(c) == NotNa(df.cols[c])

\* the sum of (m x - S)^2 over the values x of a sequence of m values of
\* sum S: m^2 (m - 1) times the sample variance
RECURSIVE SquaredDeviations(_, _, _)
SquaredDeviations(vals, m, S) ==
    IF vals = << >> THEN 0
    ELSE (m * Head(vals) - S) * (m * Head(vals) - S) + SquaredDeviations(Tail(vals), m, S)

\* the variance of column c is defined and strictly less than 0.01 x mean^2
VarianceBelowThreshold(c) ==
    LET m == Len(Present(c))
        S == SumSeq(Present(c))
    IN  m >= 2 /\ 100 * SquaredDeviations(Present(c), m, S) < (m - 1) * S * S

\* the columns of numeric_cols with a variance below the threshold
FlaggedColumns == {c \in Range(types.numeric) : VarianceBelowThreshold(c)}

\* the columns of numeric_cols whose values have mean 0
ZeroMeanColumns == {c \in Range(types.numeric) : SumSeq(Present(c)) = 0}

-----------------------------------------------------------------------------
(* SpecProgress: calculate_dataset_metrics_with_progress(csv_path,         *)
(* target_column, progress_callback) called once with a callback.  df is   *)
(* the table the CSV file holds; reading the file may raise, and so may    *)
(* any call of the caller's callback.                                      *)

\* the order in which the wrapper fills metrics_dict
WrapperOrder == <<
    "Missing_Values_Pct", "Duplicate_Records_Count", "Outlier_Rate",
    "Inconsistency_Rate", "Data_Type_Mismatch_Rate", "Null_vs_NaN_Distribution",
    "Cardinality_Categorical", "Target_Imbalance", "Feature_Importance_Consistency",
    "Class_Overlap_Score", "Label_Noise_Rate", "Feature_Correlation_Mean",
    "Range_Violation_Rate", "Mean_Median_Drift", "Data_Freshness", "Anomaly_Count",
    "Encoding_Coverage_Rate", "Variance_Threshold_Check",
    "Data_Density_Completeness", "Domain_Constraint_Violations" >>

\* the position after the assignment of metrics_dict[name]
WrapperNext(name) ==
    LET i == CHOOSE j \in DOMAIN WrapperOrder : WrapperOrder[j] = name
    IN  IF i = Len(WrapperOrder) THEN "wrapper_score" ELSE WrapperOrder[i + 1]

\* the percentages with the report after the target metrics repeated at 60
ReportAfterRepeated ==
    [ name \in RawMetrics |->
        CASE name = "Missing_Values_Pct" -> 30
          [] name = "Duplicate_Records_Count" -> 35
          [] name = "Outlier_Rate" -> 40
          [] name = "Inconsistency_Rate" -> 45
          [] name = "Data_Type_Mismatch_Rate" -> 50
          [] name = "Null_vs_NaN_Distribution" -> 55
          [] name = "Cardinality_Categorical" -> 60
          [] name = "Label_Noise_Rate" -> 60
          [] name = "Feature_Correlation_Mean" -> 75
          [] name = "Range_Violation_Rate" -> 80
          [] name = "Mean_Median_Drift" -> 85
          [] name = "Data_Freshness" -> 90
          [] name = "Domain_Constraint_Violations" -> 95
          [] OTHER -> 0 ]

\* the percentage the wrapper reports after the assignment of
\* metrics_dict[name]; 0 when it reports nothing there
ReportAfter ==
    [ name \in RawMetrics |->
        CASE name = "Missing_Values_Pct" -> 30
          [] name = "Duplicate_Records_Count" -> 35
          [] name = "Outlier_Rate" -> 40
          [] name = "Inconsistency_Rate" -> 45
          [] name = "Data_Type_Mismatch_Rate" -> 50
          [] name = "Null_vs_NaN_Distribution" -> 55
          [] name = "Cardinality_Categorical" -> 60
          [] name = "Label_Noise_Rate" -> 70
          [] name = "Feature_Correlation_Mean" -> 75
          [] name = "Range_Violation_Rate" -> 80
          [] name = "Mean_Median_Drift" -> 85
          [] name = "Data_Freshness" -> 90
          [] name = "Domain_Constraint_Violations" -> 95
          [] OTHER -> 0 ]

\* what the wrapper assigns to metrics_dict[name]: the calculator's result,
\* or a fallback drawn by the wrapper itself where its own guard fails.
\* Feature_Importance_Consistency and Class_Overlap_Score are called as
\* (df, target_column): target_col keeps its default None and the
\* calculator's guard returns a fallback.
WrapperOutcome(name) ==
    CASE name \in {"Outlier_Rate", "Mean_Median_Drift", "Anomaly_Count",
                   "Variance_Threshold_Check"} ->
            IF Len(types.numeric) > 0 THEN CalculatorOutcome(name) ELSE Fallback
      [] name = "Feature_Correlation_Mean" ->
            IF Len(types.numeric) > 1 THEN CalculatorOutcome(name) ELSE Fallback
      [] name \in {"Cardinality_Categorical", "Encoding_Coverage_Rate"} ->
            IF Len(types.categorical) > 0 THEN CalculatorOutcome(name) ELSE Fallback
      [] name = "Data_Freshness" ->
            IF Len(types.date) > 0 THEN CalculatorOutcome(name) ELSE Fallback
      [] name \in {"Target_Imbalance", "Label_Noise_Rate"} ->
            IF TargetAbsent THEN Fallback ELSE CalculatorOutcome(name)
      [] name \in {"Feature_Importance_Consistency", "Class_Overlap_Score"} ->
            Fallback
      [] OTHER -> CalculatorOutcome(name)

\* the tables pd.read_csv returns: string labels and at least one row
CsvTables == {t \in Tables : t.n >= 1 /\ ~HasNonStrLabel(t)}

\* metrics_dict as calculate_data_quality_score sees it: every value is a
\* one-element list, not a number
AsLists(m) == [k \in DOMAIN m |-> NonNumeric]

\* progress_callback(percent) is called; it returns, or it raises and the
\* except clause of the wrapper returns None
Reported(percent, next) ==
    /\ progress' = Append(progress, percent)
    /\ \E returns \in BOOLEAN : pc' = IF returns THEN next ELSE "returned_none"

InitProgress ==
    /\ df \in CsvTables
    /\ target \in Targets(df)
    /\ sk \in Outcomes(df, target)
    /\ rng \in 0..(RngMod - 1)
    /\ engines = [e \in EngineIds |-> NoEngine]
    /\ cur = 0
    /\ pc = "start"
    /\ types = detect_column_types(MakeTable(0, << >>, << >>))
    /\ metrics = << >>
    /\ results = << >>
    /\ fb = NoFallback
    /\ raised = FALSE
    /\ progress = << >>

\* progress_callback(5)
WrapperStart ==
    /\ pc = "start"
    /\ Reported(5, "read_csv")
    /\ UNCHANGED <<df, target, sk, rng, engines, cur, types, metrics, results, fb, raised>>

\* df = pd.read_csv(csv_path) raises
ReadCsvRaises ==
    /\ pc = "read_csv"
    /\ pc' = "returned_none"
    /\ UNCHANGED <<df, target, sk, rng, engines, cur, types, metrics, results, fb, raised,
                   progress>>

\* df = pd.read_csv(csv_path); progress_callback(10)
ReadCsv ==
    /\ pc = "read_csv"
    /\ Reported(10, "construct")
    /\ UNCHANGED <<df, target, sk, rng, engines, cur, types, metrics, results, fb, raised>>

\* metrics_calculator = DataQualityMetrics(); progress_callback(15)
WrapperConstruct ==
    /\ pc = "construct"
    /\ engines' = [engines EXCEPT ![1] = NewEngine(FALSE, 42, rng)]
    /\ rng' = SeedState(42)
    /\ Reported(15, "metrics_dict")
    /\ UNCHANGED <<df, target, sk, cur, types, metrics, results, fb, raised>>

\* metrics_dict = {...}; progress_callback(20)
WrapperMetricsDict ==
    /\ pc = "metrics_dict"
    /\ metrics' = [k \in {"Row_Count", "Column_Count"} |->
                     IF k = "Row_Count" THEN df.n ELSE NCols(df)]
    /\ Reported(20, "detect_types")
    /\ UNCHANGED <<df, target, sk, rng, engines, cur, types, results, fb, raised>>

\* numeric_cols, categorical_cols, date_cols =
\* metrics_calculator._detect_column_types(df); progress_callback(25)
WrapperDetectColumnTypes ==
    /\ pc = "detect_types"
    /\ types' = detect_column_types(df)
    /\ Reported(25, WrapperOrder[1])
    /\ UNCHANGED <<df, target, sk, rng, engines, cur, metrics, results, fb, raised>>

\* metrics_dict[name] = [...], and the report that follows it, if any
WrapperCalc(name) ==
    /\ pc = name
    /\ engines[1].constructed
    /\ IF ReportAfter[name] = 0
       THEN /\ Store(name, WrapperOutcome(name), WrapperNext(name))
            /\ UNCHANGED progress
       ELSE /\ progress' = Append(progress, ReportAfter[name])
            /\ \E returns \in BOOLEAN :
                 Store(name, WrapperOutcome(name),
                       IF returns THEN WrapperNext(name) ELSE "returned_none")
    /\ UNCHANGED <<df, target, sk, engines, types, results>>

\* metrics_dict['Data_Quality_Score'] =
\* [metrics_calculator.calculate_data_quality_score(metrics_dict)];
\* metrics_df = pd.DataFrame(metrics_dict); progress_callback(100);
\* return metrics_df
WrapperScore ==
    /\ pc = "wrapper_score"
    /\ progress' = Append(progress, 100)
    /\ \E returns \in BOOLEAN :
         Store("Data_Quality_Score", calculate_data_quality_score(AsLists(metrics)),
               IF returns THEN "returned" ELSE "returned_none")
    /\ UNCHANGED <<df, target, sk, engines, types, results>>

NextProgress ==
    \/ WrapperStart
    \/ ReadCsvRaises
    \/ ReadCsv
    \/ WrapperConstruct
    \/ WrapperMetricsDict
    \/ WrapperDetectColumnTypes
    \/ \E name \in RawMetrics : WrapperCalc(name)
    \/ WrapperScore

SpecProgress == InitProgress /\ [][NextProgress]_vars

\* C28: in the record calculate_dataset_metrics_with_progress returns,
\* Data_Quality_Score is the aggregator's weighted score of the metric
\* values of that record, not the aggregator's failure fallback.
C28_WrapperScoreFromRecord ==
    [][pc = "wrapper_score" =>
         LET score == calculate_data_quality_score([k \in RawMetrics |-> metrics[k]])
         IN  score.kind = "value" =>
                /\ fb' = fb
                /\ rng' = rng
                /\ metrics'["Data_Quality_Score"] = score.v]_vars

\* the reported percentages are strictly increasing, start at 5 and stay
\* at or below 100, and 100 comes after the score
ProgressWellFormed ==
    /\ \A i \in DOMAIN progress : progress[i] <= 100
    /\ \A i, j \in DOMAIN progress : i < j => progress[i] < progress[j]
    /\ progress # << >> => progress[1] = 5
    /\ (\E i \in DOMAIN progress : progress[i] = 100) => "Data_Quality_Score" \in DOMAIN metrics
    /\ pc = "returned" => progress[Len(progress)] = 100

\* C29: with a callback, the reported percentages are strictly increasing,
\* start at 5 and never exceed 100; 100 is reported only after the score
\* has been computed; when a step raises, the wrapper returns None, no
\* exception leaves it, and nothing is reported after that.
C29_ProgressMonotoneUntilReturn ==
    [][/\ ProgressWellFormed'
       /\ ~raised'
       /\ pc \notin {"returned", "returned_none"}
       /\ pc' = "returned_none" => Len(progress') <= Len(progress) + 1]_vars

\* a run that went through: nineteen reports, the last one 100, then the
\* frame is returned
C29_Witness ==
    /\ pc = "returned"
    /\ Len(progress) = 19
    /\ progress[19] = 100
    /\ AllMetrics \subseteq DOMAIN metrics

\* the callback raised at 50: None is returned with ten reports made
C29_RaisedWitness ==
    /\ pc = "returned_none"
    /\ Len(progress) = 10
    /\ progress[10] = 50

=============================================================================
